---- MODULE Spec2Model ----
(***************************************************************************)
(* dehistory: a browser extension that clears browsing data on demand, on  *)
(* browser startup and when the last window closes, honouring a per-domain *)
(* whitelist.  The module models the background service worker            *)
(* (SettingsManager, DataCleaner, EventHandler and the listeners that wire *)
(* them), the options page's save handler, the popup's whitelist toggle,   *)
(* and the host objects they talk to (chrome.storage.local,               *)
(* chrome.storage.session, chrome.windows, chrome.browsingData).          *)
(*                                                                         *)
(* Strings are sequences of one-character strings, so that split, trim and *)
(* concatenation are computed as the code computes them.                   *)
(***************************************************************************)
EXTENDS Integers, Sequences, FiniteSets, Bags, TLC

VARIABLES
    store,      \* chrome.storage.local: the persistent store, key -> value
    session,    \* chrome.storage.session: key startupCleanExecuted
    settings,   \* the SettingsManager instance of the background process
    tasks,      \* bag of suspended handler invocations (awaiting a host call)
    ev,         \* what the latest step did: handler, inputs, calls it issued
    hist,       \* history of the current browser session (for the claims)
    nEvents     \* number of external events delivered so far

vars == <<store, session, settings, tasks, ev, hist, nEvents>>

-----------------------------------------------------------------------------
(* Bounds of the model *)

\* external events (messages, window closes, startups, installs, saves,
\* popup clicks, restarts) delivered in one behaviour
MaxEvents == 3

\* handlers suspended at an await at the same time
MaxTasks == 2

\* entries of the whitelists getOriginsByFlag is tried on
MaxWhitelist == 2

\* comma-separated parts after the domain in the lines parseWhitelistLine
\* is tried on
MaxFlagParts == 3

\* characters of the short strings validateDomainName is tried on
MaxDomainChars == 4

-----------------------------------------------------------------------------
(* Characters and strings *)

\* a value that is undefined in JavaScript (missing key, missing property)
Absent == "undefined"

LowerLetters == {"a","b","c","d","e","f","g","h","i","j","k","l","m",
                 "n","o","p","q","r","s","t","u","v","w","x","y","z"}
UpperLetters == {"A","B","C","D","E","F","G","H","I","J","K","L","M",
                 "N","O","P","Q","R","S","T","U","V","W","X","Y","Z"}
Letters == LowerLetters \cup UpperLetters
Digits == {"0","1","2","3","4","5","6","7","8","9"}

\* characters String.prototype.trim removes; code points outside ASCII are
\* written as tokens
WhitespaceChars == {" ", "\t", "\n", "\r", "U+00A0", "U+2003", "U+2028", "U+3000", "U+FEFF"}

\* characters outside \x00-\x7F
NonAsciiChars == {"U+00A0", "U+00E9", "U+2003", "U+2028", "U+3000", "U+3042", "U+FEFF"}

RECURSIVE TrimStart(_)
TrimStart(s) ==
    IF s # <<>> /\ Head(s) \in WhitespaceChars THEN TrimStart(Tail(s)) ELSE s

RECURSIVE TrimEnd(_)
TrimEnd(s) ==
    IF s # <<>> /\ s[Len(s)] \in WhitespaceChars
    THEN TrimEnd(SubSeq(s, 1, Len(s) - 1))
    ELSE s

\* String.prototype.trim
Trim(s) == TrimEnd(TrimStart(s))

\* String.prototype.split(sep) for a one-character separator: the pieces
\* between separators, empty pieces included; at(k) is the position of the
\* k-th separator
Split(s, sep) ==
    LET seps == {i \in 1..Len(s) : s[i] = sep}
        n == Cardinality(seps) + 1
        at(k) == CHOOSE i \in seps : Cardinality({j \in seps : j < i}) = k - 1
    IN  [k \in 1..n |->
            SubSeq(s, IF k = 1 THEN 1 ELSE at(k - 1) + 1,
                      IF k = n THEN Len(s) ELSE at(k) - 1)]

\* Array.prototype.join(sep)
RECURSIVE Join(_, _)
Join(parts, sep) ==
    IF parts = <<>> THEN <<>>
    ELSE IF Len(parts) = 1 THEN parts[1]
    ELSE parts[1] \o sep \o Join(Tail(parts), sep)

\* String.prototype.includes for a one-character needle
Includes(s, c) == \E i \in 1..Len(s) : s[i] = c

\* Array.prototype.map
MapSeq(s, F(_)) == [i \in 1..Len(s) |-> F(s[i])]

\* concatenation of a sequence of sequences (the flattening step of flatMap)
RECURSIVE Flatten(_)
Flatten(ss) == IF ss = <<>> THEN <<>> ELSE Head(ss) \o Flatten(Tail(ss))

Range(s) == {s[i] : i \in 1..Len(s)}

-----------------------------------------------------------------------------
(* constants.js *)

DEFAULT_SETTINGS ==
    [WHITELIST_KEEP_COOKIES |-> 1,
     WHITELIST_KEEP_CACHE |-> 1,
     RUN_ON_STARTUP |-> FALSE,
     RUN_ON_CLOSE |-> FALSE,
     REMOVE_DOWNLOADS |-> TRUE,
     REMOVE_FORMDATA |-> TRUE,
     REMOVE_HISTORY |-> TRUE,
     REMOVE_COOKIES |-> TRUE,
     REMOVE_CACHE_AND_STORAGE |-> TRUE]

STORAGE_KEYS ==
    {"whitelist", "runOnStartup", "runOnClose", "removeDownloads",
     "removeFormData", "removeHistory", "removeCookies", "removeCacheAndStorage"}

FlagKeys == STORAGE_KEYS \ {"whitelist"}

\* /[\x00-\x1f\x7f-\x9f\u2000-\u200f\u2028-\u202f\u205f-\u206f]/
DangerousChars == {"\t", "\n", "\r", "U+2003", "U+2028"}

DANGEROUS_CHARS_REGEX(s) == \E i \in 1..Len(s) : s[i] \in DangerousChars

MaxLabelBody == 61

\* [a-z0-9]([a-z0-9-]{0,61}[a-z0-9])? , case-insensitive
RegexLabel(l) ==
    /\ Len(l) >= 1
    /\ Len(l) <= MaxLabelBody + 2
    /\ l[1] \in Letters \cup Digits
    /\ l[Len(l)] \in Letters \cup Digits
    /\ \A i \in 1..Len(l) : l[i] \in Letters \cup Digits \cup {"-"}

MinTldLength == 2

\* /^([a-z0-9]([a-z0-9-]{0,61}[a-z0-9])?\.)+[a-z]{2,}$/i
DOMAIN_REGEX(s) ==
    LET labels == Split(s, ".")
        n == Len(labels)
    IN  /\ n >= 2
        /\ \A i \in 1..(n - 1) : RegexLabel(labels[i])
        /\ Len(labels[n]) >= MinTldLength
        /\ \A i \in 1..Len(labels[n]) : labels[n][i] \in Letters

-----------------------------------------------------------------------------
(* utils.js: validation *)

MaxDomainLength == 253
MaxLabelLength == 63

Valid == [valid |-> TRUE, error |-> "null"]
Invalid(reason) == [valid |-> FALSE, error |-> reason]

\* validateDomainName without its last check, the length of each label
validateDomainNameNoLabelCheck(domain) ==
    IF Len(domain) = 0 THEN Invalid("empty")
    ELSE IF Len(domain) > MaxDomainLength THEN Invalid("tooLong")
    ELSE IF DANGEROUS_CHARS_REGEX(domain) THEN Invalid("dangerousChar")
    ELSE IF Includes(domain, "*") THEN Invalid("wildcard")
    ELSE IF \E i \in 1..Len(domain) : domain[i] \in NonAsciiChars THEN Invalid("nonAscii")
    ELSE IF ~DOMAIN_REGEX(domain) THEN Invalid("pattern")
    ELSE IF \E i \in 1..(Len(domain) - 1) : domain[i] = "." /\ domain[i + 1] = "."
         THEN Invalid("consecutiveDots")
    ELSE IF domain[1] = "." \/ domain[Len(domain)] = "." THEN Invalid("edgeDot")
    ELSE Valid

\* the checks in the order of the code; the first failing one is returned
validateDomainName(domain) ==
    IF Len(domain) = 0 THEN Invalid("empty")
    ELSE IF Len(domain) > MaxDomainLength THEN Invalid("tooLong")
    ELSE IF DANGEROUS_CHARS_REGEX(domain) THEN Invalid("dangerousChar")
    ELSE IF Includes(domain, "*") THEN Invalid("wildcard")
    ELSE IF \E i \in 1..Len(domain) : domain[i] \in NonAsciiChars THEN Invalid("nonAscii")
    ELSE IF ~DOMAIN_REGEX(domain) THEN Invalid("pattern")
    ELSE IF \E i \in 1..(Len(domain) - 1) : domain[i] = "." /\ domain[i + 1] = "."
         THEN Invalid("consecutiveDots")
    ELSE IF domain[1] = "." \/ domain[Len(domain)] = "." THEN Invalid("edgeDot")
    ELSE IF \E i \in 1..Len(Split(domain, ".")) : Len(Split(domain, ".")[i]) > MaxLabelLength
         THEN Invalid("labelTooLong")
    ELSE Valid

\* isValidFlag accepting any one digit
isValidFlagAnyDigit(flagValue) == Len(flagValue) = 1 /\ flagValue[1] \in Digits

isValidFlag(flagValue) == flagValue = <<"0">> \/ flagValue = <<"1">>

DigitValue(c) == CHOOSE n \in 0..9 : <<"0","1","2","3","4","5","6","7","8","9">>[n + 1] = c

\* parseInt on a string of decimal digits
RECURSIVE parseInt(_)
parseInt(str) ==
    IF str = <<>> THEN 0
    ELSE 10 * parseInt(SubSeq(str, 1, Len(str) - 1)) + DigitValue(str[Len(str)])

\* a result of parseWhitelistLine; entry and error are null (<<>>) or <<value>>;
\* an error message is its line number, its text and the line it quotes
ParseOk(entry) == [success |-> TRUE, entry |-> <<entry>>, error |-> <<>>]
ParseError(lineNumber, reason, line) ==
    [success |-> FALSE, entry |-> <<>>,
     error |-> <<[lineNumber |-> lineNumber, reason |-> reason, line |-> line]>>]

\* parseWhitelistLine reading keepCookies from the third part and keepCache
\* from the second
parseWhitelistLineSwapped(line, lineIndex) ==
    LET lineNumber == lineIndex + 1
        rawParts == Split(line, ",")
        parts == [i \in 1..Len(rawParts) |-> Trim(rawParts[i])]
        domain == parts[1]
        validation == validateDomainName(domain)
    IN  IF ~validation.valid THEN ParseError(lineNumber, validation.error, line)
        ELSE IF Len(parts) = 1
             THEN ParseOk([domain |-> domain, keepCookies |-> 1, keepCache |-> 1])
        ELSE IF Len(parts) = 3
             THEN IF ~isValidFlag(parts[2]) \/ ~isValidFlag(parts[3])
                  THEN ParseError(lineNumber, "flag", line)
                  ELSE ParseOk([domain |-> domain,
                                keepCookies |-> parseInt(parts[3]),
                                keepCache |-> parseInt(parts[2])])
        ELSE ParseError(lineNumber, "format", line)

\* parseWhitelistLine checking the number of parts and the flags before the
\* domain
parseWhitelistLineFlagsFirst(line, lineIndex) ==
    LET lineNumber == lineIndex + 1
        rawParts == Split(line, ",")
        parts == [i \in 1..Len(rawParts) |-> Trim(rawParts[i])]
        domain == parts[1]
        validation == validateDomainName(domain)
    IN  IF Len(parts) \notin {1, 3} THEN ParseError(lineNumber, "format", line)
        ELSE IF Len(parts) = 3 /\ (~isValidFlag(parts[2]) \/ ~isValidFlag(parts[3]))
             THEN ParseError(lineNumber, "flag", line)
        ELSE IF ~validation.valid THEN ParseError(lineNumber, validation.error, line)
        ELSE IF Len(parts) = 1
             THEN ParseOk([domain |-> domain, keepCookies |-> 1, keepCache |-> 1])
        ELSE ParseOk([domain |-> domain,
                      keepCookies |-> parseInt(parts[2]),
                      keepCache |-> parseInt(parts[3])])

parseWhitelistLine(line, lineIndex) ==
    LET lineNumber == lineIndex + 1
        rawParts == Split(line, ",")
        parts == [i \in 1..Len(rawParts) |-> Trim(rawParts[i])]
        domain == parts[1]
        validation == validateDomainName(domain)
    IN  IF ~validation.valid THEN ParseError(lineNumber, validation.error, line)
        ELSE IF Len(parts) = 1
             THEN ParseOk([domain |-> domain, keepCookies |-> 1, keepCache |-> 1])
        ELSE IF Len(parts) = 3
             THEN IF ~isValidFlag(parts[2]) \/ ~isValidFlag(parts[3])
                  THEN ParseError(lineNumber, "flag", line)
                  ELSE ParseOk([domain |-> domain,
                                keepCookies |-> parseInt(parts[2]),
                                keepCache |-> parseInt(parts[3])])
        ELSE ParseError(lineNumber, "format", line)

-----------------------------------------------------------------------------
(* chrome.storage.local: a key is missing (<<>>) or holds a value (<<v>>) *)

EmptyStore == [k \in STORAGE_KEYS |-> <<>>]

\* result[key] ?? dflt
Nullish(value, dflt) == IF value = <<>> THEN dflt ELSE value[1]

-----------------------------------------------------------------------------
(* settingsManager.js *)

initializeDefaults ==
    [whitelist |-> <<>>,
     runOnStartup |-> DEFAULT_SETTINGS.RUN_ON_STARTUP,
     runOnClose |-> DEFAULT_SETTINGS.RUN_ON_CLOSE,
     removeDownloads |-> DEFAULT_SETTINGS.REMOVE_DOWNLOADS,
     removeFormData |-> DEFAULT_SETTINGS.REMOVE_FORMDATA,
     removeHistory |-> DEFAULT_SETTINGS.REMOVE_HISTORY,
     removeCookies |-> DEFAULT_SETTINGS.REMOVE_COOKIES,
     removeCacheAndStorage |-> DEFAULT_SETTINGS.REMOVE_CACHE_AND_STORAGE]

\* applyLoadedSettings with || in place of ??: a stored false gives way to
\* the default
applyLoadedSettingsOr(result) ==
    LET Or(value, dflt) == IF value = <<>> THEN dflt ELSE value[1] \/ dflt
    IN  [whitelist |-> Nullish(result.whitelist, <<>>),
         runOnStartup |-> Or(result.runOnStartup, DEFAULT_SETTINGS.RUN_ON_STARTUP),
         runOnClose |-> Or(result.runOnClose, DEFAULT_SETTINGS.RUN_ON_CLOSE),
         removeDownloads |-> Or(result.removeDownloads, DEFAULT_SETTINGS.REMOVE_DOWNLOADS),
         removeFormData |-> Or(result.removeFormData, DEFAULT_SETTINGS.REMOVE_FORMDATA),
         removeHistory |-> Or(result.removeHistory, DEFAULT_SETTINGS.REMOVE_HISTORY),
         removeCookies |-> Or(result.removeCookies, DEFAULT_SETTINGS.REMOVE_COOKIES),
         removeCacheAndStorage |->
             Or(result.removeCacheAndStorage, DEFAULT_SETTINGS.REMOVE_CACHE_AND_STORAGE)]

applyLoadedSettings(result) ==
    [whitelist |-> Nullish(result.whitelist, <<>>),
     runOnStartup |-> Nullish(result.runOnStartup, DEFAULT_SETTINGS.RUN_ON_STARTUP),
     runOnClose |-> Nullish(result.runOnClose, DEFAULT_SETTINGS.RUN_ON_CLOSE),
     removeDownloads |-> Nullish(result.removeDownloads, DEFAULT_SETTINGS.REMOVE_DOWNLOADS),
     removeFormData |-> Nullish(result.removeFormData, DEFAULT_SETTINGS.REMOVE_FORMDATA),
     removeHistory |-> Nullish(result.removeHistory, DEFAULT_SETTINGS.REMOVE_HISTORY),
     removeCookies |-> Nullish(result.removeCookies, DEFAULT_SETTINGS.REMOVE_COOKIES),
     removeCacheAndStorage |->
         Nullish(result.removeCacheAndStorage, DEFAULT_SETTINGS.REMOVE_CACHE_AND_STORAGE)]

\* load() that falls back to the defaults when the read fails
loadResetsOnError(current, result, readOk) ==
    IF readOk THEN applyLoadedSettings(result) ELSE initializeDefaults

\* load() that reads the store and does not apply what it read
loadKeepsCurrent(current, result, readOk) == current

\* SettingsManager.load: the in-memory settings after the call, given whether
\* chrome.storage.local.get answered; a failed read leaves them as they were
load(current, result, readOk) == IF readOk THEN applyLoadedSettings(result) ELSE current

\* SettingsManager.load logs a failed read and throws it again
loadOutcome(readOk) == IF readOk THEN "fulfilled" ELSE "rejected"

HttpsPrefix == <<"h","t","t","p","s",":","/","/">>
HttpPrefix == <<"h","t","t","p",":","/","/">>

\* the two origins of an entry with http first
OriginsOfHttpFirst(entry) ==
    LET domain == Trim(entry.domain)
    IN  <<HttpPrefix \o domain, HttpsPrefix \o domain>>

OriginsOf(entry) ==
    LET domain == Trim(entry.domain)
    IN  <<HttpsPrefix \o domain, HttpPrefix \o domain>>

getOriginsByFlag(whitelist, flagName) ==
    LET kept == SelectSeq(whitelist, LAMBDA entry : entry[flagName] = 1)
    IN  Flatten([i \in 1..Len(kept) |-> OriginsOf(kept[i])])

-----------------------------------------------------------------------------
(* dataCleaner.js: a call of chrome.browsingData.remove(options, dataTypes) *)

Passes == {"bulk", "cookies", "cache"}

\* options.excludeOrigins is missing (<<>>) or <<the list>>
RemovalCall(pass, excludeOrigins, dataTypes) ==
    [pass |-> pass, since |-> 0, excludeOrigins |-> excludeOrigins, dataTypes |-> dataTypes]

\* removeBulkData skipped when no optional data type is selected
removeBulkDataIfSelected(s) ==
    IF ~(s.removeDownloads \/ s.removeFormData \/ s.removeHistory) THEN <<>>
    ELSE <<RemovalCall("bulk", <<>>,
            {"appcache"}
            \cup (IF s.removeDownloads THEN {"downloads"} ELSE {})
            \cup (IF s.removeFormData THEN {"formData"} ELSE {})
            \cup (IF s.removeHistory THEN {"history"} ELSE {}))>>

removeBulkData(s) ==
    <<RemovalCall("bulk", <<>>,
        {"appcache"}
        \cup (IF s.removeDownloads THEN {"downloads"} ELSE {})
        \cup (IF s.removeFormData THEN {"formData"} ELSE {})
        \cup (IF s.removeHistory THEN {"history"} ELSE {}))>>

\* removeCookies without the test of the removeCookies setting
removeCookiesAlways(s) ==
    <<RemovalCall("cookies", <<getOriginsByFlag(s.whitelist, "keepCookies")>>, {"cookies"})>>

removeCookies(s) ==
    IF ~s.removeCookies THEN <<>>
    ELSE <<RemovalCall("cookies", <<getOriginsByFlag(s.whitelist, "keepCookies")>>, {"cookies"})>>

\* removeCacheAndStorage excluding the origins of the keepCookies flag
removeCacheAndStorageByCookieFlag(s) ==
    IF ~s.removeCacheAndStorage THEN <<>>
    ELSE <<RemovalCall("cache", <<getOriginsByFlag(s.whitelist, "keepCookies")>>,
            {"cacheStorage", "cache", "fileSystems", "indexedDB", "localStorage",
             "serviceWorkers", "webSQL"})>>

removeCacheAndStorage(s) ==
    IF ~s.removeCacheAndStorage THEN <<>>
    ELSE <<RemovalCall("cache", <<getOriginsByFlag(s.whitelist, "keepCache")>>,
            {"cacheStorage", "cache", "fileSystems", "indexedDB", "localStorage",
             "serviceWorkers", "webSQL"})>>

\* clearAll suspended between its passes, a load() of the store taking
\* effect before the cache/storage pass reads the settings
clearAllInterleaved(s) ==
    removeBulkData(s) \o removeCookies(s) \o removeCacheAndStorage(applyLoadedSettings(store))

\* the removal calls clearAll issues, in order, before it first suspends
clearAll(s) == removeBulkData(s) \o removeCookies(s) \o removeCacheAndStorage(s)

\* a clearAll that resolves once every pass has answered, with an error or not
PromiseAllIgnoresErrors(pendingAfter, passOk) ==
    IF pendingAfter = {} THEN "resolved" ELSE "pending"

\* a clearAll whose promise is never resolved
PromiseAllNeverResolves(pendingAfter, passOk) == IF passOk THEN "pending" ELSE "rejected"

\* a clearAll that resolves as soon as one pass has answered without error
PromiseAllFirst(pendingAfter, passOk) == IF passOk THEN "resolved" ELSE "rejected"

\* a clearAll that waits for every pass before it settles (Promise.allSettled)
PromiseAllSettled(pendingAfter, passOk) ==
    IF pendingAfter # {} THEN "pending"
    ELSE IF passOk THEN "resolved"
    ELSE "rejected"

\* Promise.all over the passes: the state of clearAll's promise after one more
\* pass has answered, pendingAfter being the passes still in flight
PromiseAll(pendingAfter, passOk) ==
    IF ~passOk THEN "rejected"
    ELSE IF pendingAfter = {} THEN "resolved"
    ELSE "pending"

-----------------------------------------------------------------------------
(* eventHandler.js and the listeners of the background script: the pure parts *)

\* chrome.runtime.id
RuntimeId == "dehistory-id"

\* isValidSender checking only that the sender has an id
isValidSenderAnyId(sender) == sender.id # <<>> /\ sender.id[1] # ""

\* sender.id && sender.id === chrome.runtime.id ; sender.id is missing (<<>>)
\* or <<id>>, and the empty string is falsy
isValidSender(sender) ==
    sender.id # <<>> /\ sender.id[1] # "" /\ sender.id[1] = RuntimeId

Unauthorized == [success |-> FALSE, error |-> "Unauthorized"]

\* the message of the TypeError that reading a property of null throws
TypeError == "TypeError"

\* handleMessage returning true for every message of the extension itself
handleMessageAlwaysTrue(request, sender, s) ==
    IF ~isValidSender(sender)
    THEN [response |-> <<Unauthorized>>, returned |-> "false", calls |-> <<>>]
    ELSE IF request = <<>>
    THEN [response |-> <<[success |-> FALSE, error |-> TypeError]>>,
          returned |-> "false", calls |-> <<>>]
    ELSE IF request[1].action = "deleteData"
    THEN [response |-> <<>>, returned |-> "true", calls |-> clearAll(s)]
    ELSE [response |-> <<>>, returned |-> "true", calls |-> <<>>]

\* handleMessage up to its return: the response it sends synchronously (none
\* is <<>>), its return value and the removal calls clearAll issues on the
\* way; request is null (<<>>) or <<the object>>, and request.action of null
\* throws into the catch block
handleMessage(request, sender, s) ==
    IF ~isValidSender(sender)
    THEN [response |-> <<Unauthorized>>, returned |-> "false", calls |-> <<>>]
    ELSE IF request = <<>>
    THEN [response |-> <<[success |-> FALSE, error |-> TypeError]>>,
          returned |-> "false", calls |-> <<>>]
    ELSE IF request[1].action = "deleteData"
    THEN [response |-> <<>>, returned |-> "true", calls |-> clearAll(s)]
    ELSE [response |-> <<>>, returned |-> "false", calls |-> <<>>]

\* handleDeleteDataRequest reporting success whatever clearAll's outcome
handleDeleteDataRequestAlwaysOk(outcome, error) == [success |-> TRUE, error |-> "none"]

\* handleDeleteDataRequest: the response once clearAll has settled, error
\* being what clearAll rejected with (its message names the pass that failed)
handleDeleteDataRequest(outcome, error) ==
    IF outcome = "resolved"
    THEN [success |-> TRUE, error |-> "none"]
    ELSE [success |-> FALSE, error |-> error]

\* handleStartupIfNeeded without the check of the guard it read
handleStartupIfNeededNoGuard(getOk, result, s) ==
    IF ~getOk THEN "throw"
    ELSE IF s.runOnStartup THEN "clearAll"
    ELSE "return"

\* handleStartupIfNeeded with the test of runOnStartup inverted
handleStartupIfNeededInverted(getOk, result, s) ==
    IF ~getOk THEN "throw"
    ELSE IF result.startupCleanExecuted = <<TRUE>> THEN "return"
    ELSE IF ~s.runOnStartup THEN "clearAll"
    ELSE "return"

\* handleStartupIfNeeded once chrome.storage.session.get has answered: what
\* the handler does next
handleStartupIfNeeded(getOk, result, s) ==
    IF ~getOk THEN "throw"
    ELSE IF result.startupCleanExecuted = <<TRUE>> THEN "return"
    ELSE IF s.runOnStartup THEN "clearAll"
    ELSE "return"

\* the guard written whatever clearAll's outcome (as in a finally block)
afterStartupCleanAlways(outcome) == "set"

\* handleStartupIfNeeded once clearAll has settled: write the guard, or fall
\* into the catch block
afterStartupClean(outcome) == IF outcome = "resolved" THEN "set" ELSE "throw"

\* handleStartupIfNeeded with a catch block that throws again
settleStartupHandlerRethrow(how) == IF how = "throw" THEN "rejected" ELSE "fulfilled"

\* the try/catch of handleStartupIfNeeded: how its promise settles when its
\* body threw or returned
settleStartupHandler(how) == "fulfilled"

\* the try/catch of handleWindowCloseEvent
settleWindowCloseHandler(how) == "fulfilled"

\* loadSettings() of the background script: catches and logs a failed load
loadSettings(loadResult) == "fulfilled"

\* the onStartup listener has no try/catch: it settles as what it awaits
onStartupListener(awaited) == awaited

\* the onRemoved listener wraps the handler in try/catch
onRemovedListener(awaited) == "fulfilled"

\* handleWindowCloseEvent once load() has settled
handleWindowCloseEvent(loadResult, s) ==
    IF loadResult = "rejected" THEN "throw"
    ELSE IF ~s.runOnClose THEN "return"
    ELSE "checkIfLastWindow"

\* checkIfLastWindow counting the closed window among the open ones
checkIfLastWindowCounting(windows) == windows = <<>> \/ Len(windows[1]) <= 1

\* checkIfLastWindow: windows is what chrome.windows.getAll resolved with,
\* undefined (<<>>) or <<the array>>
checkIfLastWindow(windows) == windows = <<>> \/ Len(windows[1]) = 0

-----------------------------------------------------------------------------
(* options.js: the save handler; popup.js: the whitelist toggle *)

\* a number 0..9 in a template literal
NumberToString(n) == <<(<<"0", "1", "2", "3", "4", "5", "6", "7", "8", "9">>)[n + 1]>>

\* the line the options page shows for an entry:
\* `${domain},${keepCookies ? 1 : 0},${keepCache ? 1 : 0}`
SerializeEntry(entry) ==
    entry.domain
    \o <<",">> \o NumberToString(IF entry.keepCookies # 0 THEN 1 ELSE 0)
    \o <<",">> \o NumberToString(IF entry.keepCache # 0 THEN 1 ELSE 0)

\* the text the options page puts in the textarea for the stored whitelist
SerializeWhitelist(whitelist) ==
    Join([i \in 1..Len(whitelist) |-> SerializeEntry(whitelist[i])], <<"\n">>)

\* the non-blank lines of the textarea, trimmed
FormLines(text) ==
    LET ls == Split(text, "\n")
        trimmed == [i \in 1..Len(ls) |-> Trim(ls[i])]
    IN  SelectSeq(trimmed, LAMBDA l : Len(l) > 0)

\* the save handler without its duplicate check
SaveFormNoDuplicateCheck(text) ==
    LET lines == FormLines(text)
        results == [i \in 1..Len(lines) |-> parseWhitelistLine(lines[i], i - 1)]
        good == SelectSeq(results, LAMBDA r : r.success)
        bad == SelectSeq(results, LAMBDA r : ~r.success)
        whitelist == [i \in 1..Len(good) |-> good[i].entry[1]]
        invalidLines == [i \in 1..Len(bad) |-> bad[i].error[1]]
    IN  [whitelist |-> whitelist,
         invalidLines |-> invalidLines,
         duplicates |-> {},
         write |-> invalidLines = <<>>]

\* what the save handler decides for a form: the entries parsed, the
\* diagnostics, and whether it writes
SaveForm(text) ==
    LET lines == FormLines(text)
        results == [i \in 1..Len(lines) |-> parseWhitelistLine(lines[i], i - 1)]
        good == SelectSeq(results, LAMBDA r : r.success)
        bad == SelectSeq(results, LAMBDA r : ~r.success)
        whitelist == [i \in 1..Len(good) |-> good[i].entry[1]]
        invalidLines == [i \in 1..Len(bad) |-> bad[i].error[1]]
        duplicates == {i \in 1..Len(whitelist) :
                          \E j \in 1..(i - 1) : whitelist[j].domain = whitelist[i].domain}
    IN  [whitelist |-> whitelist,
         invalidLines |-> invalidLines,
         duplicates |-> duplicates,
         write |-> invalidLines = <<>> /\ duplicates = {}]

\* the object the save handler passes to chrome.storage.local.set
SavedStore(whitelist, flags) ==
    [k \in STORAGE_KEYS |-> IF k = "whitelist" THEN <<whitelist>> ELSE <<flags[k]>>]

\* the popup's toggle of currentDomain on the whitelist it read
findIndex(whitelist, domain) ==
    IF \E i \in 1..Len(whitelist) : whitelist[i].domain = domain
    THEN (CHOOSE i \in 1..Len(whitelist) :
             /\ whitelist[i].domain = domain
             /\ \A j \in 1..(i - 1) : whitelist[j].domain # domain) - 1
    ELSE -1

\* the toggle without the search for the domain: it always adds
ToggleWhitelistAlwaysAdd(whitelist, currentDomain) ==
    Append(whitelist,
           [domain |-> currentDomain,
            keepCookies |-> DEFAULT_SETTINGS.WHITELIST_KEEP_COOKIES,
            keepCache |-> DEFAULT_SETTINGS.WHITELIST_KEEP_CACHE])

ToggleWhitelist(whitelist, currentDomain) ==
    LET existingIndex == findIndex(whitelist, currentDomain)
    IN  IF existingIndex # -1
        THEN SubSeq(whitelist, 1, existingIndex)
             \o SubSeq(whitelist, existingIndex + 2, Len(whitelist))
        ELSE Append(whitelist,
                    [domain |-> currentDomain,
                     keepCookies |-> DEFAULT_SETTINGS.WHITELIST_KEEP_COOKIES,
                     keepCache |-> DEFAULT_SETTINGS.WHITELIST_KEEP_CACHE])

-----------------------------------------------------------------------------
(* Inputs of the environment *)

\* senders of a message: no id, the extension itself, another extension
Senders == {[id |-> <<>>], [id |-> <<RuntimeId>>], [id |-> <<"other-id">>]}

\* messages: null (<<>>) or <<an object with an action>>
Requests == {<<[action |-> "deleteData"]>>, <<[action |-> "ping"]>>, <<>>}

DomainA == <<"a", ".", "c", "o">>
DomainB == <<"b", ".", "c", "o">>

\* texts of the options page's whitelist textarea
TextOne == DomainA
TextTwo == DomainA \o <<",", "1", ",", "0", "\n", "\n", " ">> \o DomainB \o <<",", "0", ",", "1">>
TextBadFlag == DomainA \o <<",", "2", ",", "1">>
TextDuplicate == DomainA \o <<"\n">> \o DomainA \o <<",", "0", ",", "0">>

\* a blank line, then a wildcard domain with a flag that is no flag
TextBadDomain == <<"\n", "*", ".", "c", "o", ",", "2", ",", "1">>

FormTexts == {TextOne, TextTwo, TextBadFlag, TextDuplicate, TextBadDomain}

Flags(onStartup, onClose, downloads, formData, history, cookies, cache) ==
    [runOnStartup |-> onStartup, runOnClose |-> onClose,
     removeDownloads |-> downloads, removeFormData |-> formData,
     removeHistory |-> history, removeCookies |-> cookies,
     removeCacheAndStorage |-> cache]

\* states of the options page's seven checkboxes
FormFlags ==
    {Flags(TRUE, TRUE, TRUE, TRUE, TRUE, TRUE, TRUE),
     Flags(FALSE, FALSE, FALSE, FALSE, FALSE, FALSE, FALSE),
     Flags(TRUE, FALSE, FALSE, TRUE, FALSE, TRUE, FALSE)}

\* SaveForm over the texts above
Forms == [text \in FormTexts |-> SaveForm(text)]

\* what the store can hold when the background process starts: nothing (a
\* fresh install), or what an earlier save of the options page wrote
InitStores ==
    {EmptyStore,
     SavedStore(Forms[TextTwo].whitelist, Flags(TRUE, TRUE, TRUE, TRUE, TRUE, TRUE, TRUE))}

\* url.hostname of a tab on http://localhost:8080/
Localhost == <<"l", "o", "c", "a", "l", "h", "o", "s", "t">>

\* hosts of the tab the popup is opened on: any hostname of an http or
\* https URL, among them hosts the options page would not accept
PopupDomains == {Localhost}

\* what chrome.windows.getAll can resolve with: the windows still open
WindowLists == {<< <<>> >>, << <<1>> >>, << <<1, 2>> >>}

-----------------------------------------------------------------------------
(* State *)

\* a suspended invocation: the handler, the host call it awaits, the removal
\* passes in flight, and what it carries across the await
Task(kind, pc) ==
    [kind |-> kind, pc |-> pc, pending |-> {}, failed |-> FALSE,
     loadFailed |-> FALSE, sequel |-> FALSE, domain |-> <<>>, whitelist |-> <<>>]

\* ev: the handler that ran (op, kind), its inputs (sender, action, ok,
\* windows), the removal calls it issued, the response it sent, the value
\* handleMessage returned, how the handler's and the listener's promises
\* settled, and what the step found (guard: the session guard read; memory:
\* runOnClose in memory before load(); loadFailed, sequel: see Task;
\* inFlight: passes of the clearAll still unanswered when the response was
\* sent; text, flags: the form the save handler read)
NoEv ==
    [op |-> "init", kind |-> "none", sender |-> <<>>, action |-> "",
     ok |-> TRUE, windows |-> <<>>, calls |-> <<>>, response |-> <<>>,
     returned |-> "none", handler |-> "none", listener |-> "none",
     guard |-> FALSE, memory |-> FALSE, loadFailed |-> FALSE, sequel |-> FALSE,
     inFlight |-> FALSE, text |-> <<>>, flags |-> <<>>]

NewSession == [startupCleanExecuted |-> <<>>]

\* what has happened in the current browser session: a clearAll started by
\* the startup handler resolved with every pass answered without error
\* (startupCleanOk); a startup handler call that invoked clearAll has
\* returned (startupCleared); one has returned after writing the guard
\* (startupGuarded); one found the guard unset and runOnStartup false and
\* returned (startupSkipped)
NewHist ==
    [startupCleanOk |-> FALSE, startupCleared |-> FALSE, startupGuarded |-> FALSE,
     startupSkipped |-> FALSE]

Init ==
    /\ store \in InitStores
    /\ session = NewSession
    /\ settings = initializeDefaults
    /\ tasks = EmptyBag
    /\ ev = NoEv
    /\ hist = NewHist
    /\ nEvents = 0

Budget == nEvents < MaxEvents

\* an event that starts a handler is delivered while fewer than MaxTasks
\* handlers are suspended
Room == BagCardinality(tasks) < MaxTasks

Running == BagToSet(tasks)

Spawn(t) == tasks (+) SetToBag({t})
Finish(t) == tasks (-) SetToBag({t})
Resume(t, t2) == (tasks (-) SetToBag({t})) (+) SetToBag({t2})

PassesOf(calls) == {calls[i].pass : i \in 1..Len(calls)}

\* the observation of a step of task t
EvOf(op, t) == [NoEv EXCEPT !.op = op, !.kind = t.kind]

\* the observation of a step that decides nothing the properties below are
\* about: an event that only suspends, or an answer that only resumes
Quiet == [NoEv EXCEPT !.op = "quiet"]

-----------------------------------------------------------------------------
(* The background process: chrome.runtime.onMessage *)

OnMessage(request, sender) ==
    /\ Budget /\ Room
    /\ LET r == handleMessage(request, sender, settings)
       IN  /\ tasks' = IF r.calls # <<>>
                       THEN Spawn([Task("message", "clear") EXCEPT
                                      !.pending = PassesOf(r.calls)])
                       ELSE tasks
           /\ ev' = [NoEv EXCEPT !.op = "OnMessage", !.kind = "message",
                                 !.sender = sender.id,
                                 !.action = IF request = <<>> THEN "null"
                                            ELSE request[1].action,
                                 !.calls = r.calls, !.response = r.response,
                                 !.returned = r.returned]
    /\ nEvents' = nEvents + 1
    /\ UNCHANGED <<store, session, settings, hist>>

\* the callback of chrome.browsingData.remove for one pass of task t, with
\* chrome.runtime.lastError set (~ok) or not; when it settles clearAll, the
\* handler awaiting clearAll continues in the same step.  Once clearAll has
\* rejected, the passes still in flight answer into a settled
\* promise: their callbacks change nothing, and the model drops them
RemovalAnswered(t, pass, ok) ==
    /\ t \in Running
    /\ t.pc = "clear"
    /\ pass \in t.pending
    /\ LET rest == t.pending \ {pass}
           outcome == PromiseAll(rest, ok)
           error == IF ok THEN "none" ELSE pass
           e == [EvOf("RemovalAnswered", t) EXCEPT !.ok = ok]
       IN  IF outcome = "pending"
           THEN /\ tasks' = Resume(t, [t EXCEPT !.pending = rest,
                                                !.failed = t.failed \/ ~ok])
                /\ ev' = Quiet
                /\ UNCHANGED hist
           ELSE IF t.kind = "message"
           THEN /\ tasks' = Finish(t)
                /\ ev' = [e EXCEPT !.response = <<handleDeleteDataRequest(outcome, error)>>,
                                   !.inFlight = rest # {}]
                /\ UNCHANGED hist
           ELSE IF t.kind = "startup"
           THEN LET next == afterStartupClean(outcome)
                    handler == settleStartupHandler(next)
                    clean == outcome = "resolved" /\ ok /\ rest = {} /\ ~t.failed
                IN  IF next = "set"
                    THEN /\ tasks' = Resume(t, [t EXCEPT !.pc = "set", !.pending = {},
                                                         !.failed = FALSE])
                         /\ ev' = e
                         /\ hist' = [hist EXCEPT
                                        !.startupCleanOk = hist.startupCleanOk \/ clean]
                    ELSE /\ tasks' = Finish(t)
                         /\ ev' = [e EXCEPT !.handler = handler,
                                            !.listener = onStartupListener(handler)]
                         /\ hist' = [hist EXCEPT !.startupCleared = TRUE]
           ELSE LET handler == settleWindowCloseHandler(
                                   IF outcome = "resolved" THEN "return" ELSE "throw")
                IN  /\ tasks' = Finish(t)
                    /\ ev' = [e EXCEPT !.handler = handler,
                                       !.listener = onRemovedListener(handler)]
                    /\ UNCHANGED hist
    /\ UNCHANGED <<store, session, settings, nEvents>>

-----------------------------------------------------------------------------
(* The background process: chrome.runtime.onStartup *)

\* the listener calls loadSettings(), which calls settingsManager.load()
OnStartup ==
    /\ Budget /\ Room
    /\ tasks' = Spawn(Task("startup", "load"))
    /\ ev' = Quiet
    /\ nEvents' = nEvents + 1
    /\ UNCHANGED <<store, session, settings, hist>>

\* chrome.storage.local.get answers load(); loadSettings() settles and the
\* listener goes on to call handleStartupIfNeeded, which reads the guard
StartupLoaded(t, readOk) ==
    /\ t \in Running
    /\ t.kind = "startup" /\ t.pc = "load"
    /\ settings' = load(settings, store, readOk)
    /\ LET awaited == loadSettings(loadOutcome(readOk))
       IN  IF awaited = "rejected"
           THEN /\ tasks' = Finish(t)
                /\ ev' = [EvOf("StartupLoaded", t) EXCEPT
                              !.ok = readOk, !.listener = onStartupListener(awaited)]
           ELSE /\ tasks' = Resume(t, [t EXCEPT !.pc = "guard",
                                                !.loadFailed = ~readOk,
                                                !.sequel = hist.startupCleared])
                /\ ev' = [EvOf("StartupLoaded", t) EXCEPT !.ok = readOk]
    /\ UNCHANGED <<store, session, hist, nEvents>>

\* chrome.storage.session.get answers handleStartupIfNeeded
StartupGuardRead(t, getOk) ==
    /\ t \in Running
    /\ t.kind = "startup" /\ t.pc = "guard"
    /\ LET next == handleStartupIfNeeded(getOk, session, settings)
           calls == IF next = "clearAll" THEN clearAll(settings) ELSE <<>>
           handler == settleStartupHandler(next)
           e == [EvOf("StartupGuardRead", t) EXCEPT
                    !.ok = getOk, !.calls = calls,
                    !.guard = (session.startupCleanExecuted = <<TRUE>>),
                    !.loadFailed = t.loadFailed, !.sequel = t.sequel]
       IN  IF next = "clearAll"
           THEN /\ tasks' = Resume(t, [Task("startup", "clear") EXCEPT
                                           !.pending = PassesOf(calls)])
                /\ ev' = e
                /\ UNCHANGED hist
           ELSE /\ tasks' = Finish(t)
                /\ ev' = [e EXCEPT !.handler = handler,
                                   !.listener = onStartupListener(handler)]
                /\ hist' = [hist EXCEPT
                               !.startupSkipped =
                                   hist.startupSkipped
                                   \/ (getOk /\ session.startupCleanExecuted = <<>>)]
    /\ UNCHANGED <<store, session, settings, nEvents>>

\* chrome.storage.session.set({startupCleanExecuted: true}) answers
StartupGuardWritten(t, setOk) ==
    /\ t \in Running
    /\ t.kind = "startup" /\ t.pc = "set"
    /\ session' = IF setOk THEN [session EXCEPT !.startupCleanExecuted = <<TRUE>>]
                  ELSE session
    /\ tasks' = Finish(t)
    /\ LET handler == settleStartupHandler(IF setOk THEN "return" ELSE "throw")
       IN  ev' = [EvOf("StartupGuardWritten", t) EXCEPT
                     !.ok = setOk, !.handler = handler,
                     !.listener = onStartupListener(handler)]
    /\ hist' = [hist EXCEPT !.startupCleared = TRUE,
                             !.startupGuarded = hist.startupGuarded \/ setOk]
    /\ UNCHANGED <<store, settings, nEvents>>

-----------------------------------------------------------------------------
(* The background process: chrome.windows.onRemoved *)

\* the listener calls handleWindowCloseEvent, which calls settings.load()
OnWindowRemoved ==
    /\ Budget /\ Room
    /\ tasks' = Spawn(Task("close", "load"))
    /\ ev' = Quiet
    /\ nEvents' = nEvents + 1
    /\ UNCHANGED <<store, session, settings, hist>>

\* chrome.storage.local.get answers load(); the handler reads runOnClose
CloseLoaded(t, readOk) ==
    /\ t \in Running
    /\ t.kind = "close" /\ t.pc = "load"
    /\ settings' = load(settings, store, readOk)
    /\ LET next == handleWindowCloseEvent(loadOutcome(readOk), settings')
           handler == settleWindowCloseHandler(next)
           e == [EvOf("CloseLoaded", t) EXCEPT !.ok = readOk,
                                               !.memory = settings.runOnClose]
       IN  IF next = "checkIfLastWindow"
           THEN /\ tasks' = Resume(t, [t EXCEPT !.pc = "windows"])
                /\ ev' = e
           ELSE /\ tasks' = Finish(t)
                /\ ev' = [e EXCEPT !.handler = handler,
                                   !.listener = onRemovedListener(handler)]
    /\ UNCHANGED <<store, session, hist, nEvents>>

\* a window-close handler that removes the session guard when it cleans up
\* after the last window
CloseWindowsListedResetsGuard(t, getOk, windows) ==
    /\ t \in Running
    /\ t.kind = "close" /\ t.pc = "windows"
    /\ LET isLastWindow == getOk /\ checkIfLastWindow(windows)
           calls == IF isLastWindow THEN clearAll(settings) ELSE <<>>
           handler == settleWindowCloseHandler(IF getOk THEN "return" ELSE "throw")
           e == [EvOf("CloseWindowsListed", t) EXCEPT
                    !.ok = getOk, !.windows = IF getOk THEN windows ELSE <<>>,
                    !.calls = calls]
       IN  IF isLastWindow
           THEN /\ tasks' = Resume(t, [t EXCEPT !.pc = "clear",
                                                !.pending = PassesOf(calls)])
                /\ ev' = e
                /\ session' = NewSession
           ELSE /\ tasks' = Finish(t)
                /\ ev' = [e EXCEPT !.handler = handler,
                                   !.listener = onRemovedListener(handler)]
                /\ session' = session
    /\ UNCHANGED <<store, settings, hist, nEvents>>

\* chrome.windows.getAll answers checkIfLastWindow: it rejects (~getOk) or
\* resolves with the windows still open
CloseWindowsListed(t, getOk, windows) ==
    /\ t \in Running
    /\ t.kind = "close" /\ t.pc = "windows"
    /\ LET isLastWindow == getOk /\ checkIfLastWindow(windows)
           calls == IF isLastWindow THEN clearAll(settings) ELSE <<>>
           handler == settleWindowCloseHandler(IF getOk THEN "return" ELSE "throw")
           e == [EvOf("CloseWindowsListed", t) EXCEPT
                    !.ok = getOk, !.windows = IF getOk THEN windows ELSE <<>>,
                    !.calls = calls]
       IN  IF isLastWindow
           THEN /\ tasks' = Resume(t, [t EXCEPT !.pc = "clear",
                                                !.pending = PassesOf(calls)])
                /\ ev' = e
           ELSE /\ tasks' = Finish(t)
                /\ ev' = [e EXCEPT !.handler = handler,
                                   !.listener = onRemovedListener(handler)]
    /\ UNCHANGED <<store, session, settings, hist, nEvents>>

-----------------------------------------------------------------------------
(* The background process: chrome.runtime.onInstalled, and its lifetime *)

\* the listener calls loadSettings() and does not await it
OnInstalled ==
    /\ Budget /\ Room
    /\ tasks' = Spawn(Task("installed", "load"))
    /\ ev' = Quiet
    /\ nEvents' = nEvents + 1
    /\ UNCHANGED <<store, session, settings, hist>>

InstalledLoaded(t, readOk) ==
    /\ t \in Running
    /\ t.kind = "installed" /\ t.pc = "load"
    /\ settings' = load(settings, store, readOk)
    /\ tasks' = Finish(t)
    /\ ev' = [EvOf("InstalledLoaded", t) EXCEPT !.ok = readOk]
    /\ UNCHANGED <<store, session, hist, nEvents>>

InBackground(t) == t.kind \in {"message", "startup", "close", "installed"}

\* the browser stops the service worker and starts it again later in the
\* same session: the module is evaluated anew (new SettingsManager), and
\* what the old instance awaited is never delivered
BackgroundRestart ==
    /\ Budget
    /\ settings' = initializeDefaults
    /\ tasks' = [t \in {u \in Running : ~InBackground(u)} |-> tasks[t]]
    /\ ev' = Quiet
    /\ nEvents' = nEvents + 1
    /\ UNCHANGED <<store, session, hist>>

\* the browser is closed and started again: a new session, whose session
\* storage is empty
BrowserRestart ==
    /\ Budget
    /\ settings' = initializeDefaults
    /\ session' = NewSession
    /\ tasks' = EmptyBag
    /\ hist' = NewHist
    /\ ev' = Quiet
    /\ nEvents' = nEvents + 1
    /\ UNCHANGED store

-----------------------------------------------------------------------------
(* The options page and the popup *)

\* the save button: validate the form and, if nothing is wrong, write the
\* whitelist and the seven flags in one chrome.storage.local.set, which
\* succeeds (setOk) or leaves the store as it was
OptionsSave(text, flags, setOk) ==
    /\ Budget
    /\ LET form == Forms[text]
       IN  /\ store' = IF form.write /\ setOk
                       THEN SavedStore(form.whitelist, flags)
                       ELSE store
           /\ ev' = IF form.write /\ ~setOk
                    THEN [NoEv EXCEPT !.op = "OptionsSave", !.kind = "options",
                                      !.ok = FALSE]
                    ELSE [NoEv EXCEPT !.op = "OptionsSave", !.kind = "options",
                                      !.text = text,
                                      !.flags = IF form.write THEN <<flags>> ELSE <<>>]
    /\ nEvents' = nEvents + 1
    /\ UNCHANGED <<session, settings, tasks, hist>>

\* the popup's add/remove button on a tab of host currentDomain: it asks
\* chrome.storage.local for the whitelist
PopupClick(currentDomain) ==
    /\ Budget /\ Room
    /\ currentDomain # <<>>
    /\ tasks' = Spawn([Task("popup", "get") EXCEPT !.domain = currentDomain])
    /\ ev' = Quiet
    /\ nEvents' = nEvents + 1
    /\ UNCHANGED <<store, session, settings, hist>>

\* the get answers: toggle the domain on the whitelist read and ask the
\* store to write the result
PopupRead(t, getOk) ==
    /\ t \in Running
    /\ t.kind = "popup" /\ t.pc = "get"
    /\ tasks' = IF getOk
                THEN Resume(t, [t EXCEPT
                                   !.pc = "set",
                                   !.whitelist = ToggleWhitelist(
                                       Nullish(store.whitelist, <<>>), t.domain)])
                ELSE Finish(t)
    /\ ev' = Quiet
    /\ UNCHANGED <<store, session, settings, hist, nEvents>>

\* saveWhitelistWithMessage writing the seven flags too, at their defaults
PopupWrittenWholeStore(t, setOk) ==
    /\ t \in Running
    /\ t.kind = "popup" /\ t.pc = "set"
    /\ store' = IF setOk THEN SavedStore(t.whitelist, initializeDefaults) ELSE store
    /\ tasks' = Finish(t)
    /\ ev' = Quiet
    /\ UNCHANGED <<session, settings, hist, nEvents>>

\* saveWhitelistWithMessage: the set of the whitelist key alone answers
PopupWritten(t, setOk) ==
    /\ t \in Running
    /\ t.kind = "popup" /\ t.pc = "set"
    /\ store' = IF setOk THEN [store EXCEPT !.whitelist = <<t.whitelist>>] ELSE store
    /\ tasks' = Finish(t)
    /\ ev' = Quiet
    /\ UNCHANGED <<session, settings, hist, nEvents>>

-----------------------------------------------------------------------------

Next ==
    \/ \E request \in Requests, sender \in Senders : OnMessage(request, sender)
    \/ \E t \in Running, pass \in Passes, ok \in BOOLEAN : RemovalAnswered(t, pass, ok)
    \/ OnStartup
    \/ \E t \in Running, readOk \in BOOLEAN : StartupLoaded(t, readOk)
    \/ \E t \in Running, getOk \in BOOLEAN : StartupGuardRead(t, getOk)
    \/ \E t \in Running, setOk \in BOOLEAN : StartupGuardWritten(t, setOk)
    \/ OnWindowRemoved
    \/ \E t \in Running, readOk \in BOOLEAN : CloseLoaded(t, readOk)
    \/ \E t \in Running, getOk \in BOOLEAN, windows \in WindowLists :
           CloseWindowsListed(t, getOk, windows)
    \/ OnInstalled
    \/ \E t \in Running, readOk \in BOOLEAN : InstalledLoaded(t, readOk)
    \/ BackgroundRestart
    \/ BrowserRestart
    \/ \E text \in FormTexts, flags \in FormFlags, setOk \in BOOLEAN :
           OptionsSave(text, flags, setOk)
    \/ \E currentDomain \in PopupDomains : PopupClick(currentDomain)
    \/ \E t \in Running, getOk \in BOOLEAN : PopupRead(t, getOk)
    \/ \E t \in Running, setOk \in BOOLEAN : PopupWritten(t, setOk)

Spec == Init /\ [][Next]_vars

\* chrome.browsingData.remove answers some call that is in flight
RemovalStep ==
    \E t \in Running, pass \in Passes, ok \in BOOLEAN : RemovalAnswered(t, pass, ok)

\* the steps of a background process that the browser does not stop
LiveNext ==
    \/ \E request \in Requests, sender \in Senders : OnMessage(request, sender)
    \/ \E t \in Running, pass \in Passes, ok \in BOOLEAN : RemovalAnswered(t, pass, ok)
    \/ OnStartup
    \/ \E t \in Running, readOk \in BOOLEAN : StartupLoaded(t, readOk)
    \/ \E t \in Running, getOk \in BOOLEAN : StartupGuardRead(t, getOk)
    \/ \E t \in Running, setOk \in BOOLEAN : StartupGuardWritten(t, setOk)
    \/ OnWindowRemoved
    \/ \E t \in Running, readOk \in BOOLEAN : CloseLoaded(t, readOk)
    \/ \E t \in Running, getOk \in BOOLEAN, windows \in WindowLists :
           CloseWindowsListed(t, getOk, windows)
    \/ OnInstalled
    \/ \E t \in Running, readOk \in BOOLEAN : InstalledLoaded(t, readOk)
    \/ \E text \in FormTexts, flags \in FormFlags, setOk \in BOOLEAN :
           OptionsSave(text, flags, setOk)
    \/ \E currentDomain \in PopupDomains : PopupClick(currentDomain)
    \/ \E t \in Running, getOk \in BOOLEAN : PopupRead(t, getOk)
    \/ \E t \in Running, setOk \in BOOLEAN : PopupWritten(t, setOk)

\* the background process keeps running and chrome.browsingData.remove
\* answers every call sooner or later; nothing is assumed of the other
\* host calls
LiveSpec == Init /\ [][LiveNext]_vars /\ WF_vars(RemovalStep)

-----------------------------------------------------------------------------
(* Properties *)

Guard == session.startupCleanExecuted = <<TRUE>>

\* the clearAll invocations among the calls of a step: clearAll always
\* issues exactly one bulk call
ClearAlls(calls) == Cardinality({i \in 1..Len(calls) : calls[i].pass = "bulk"})

\* the whitelist the persistent store holds
PersistedWhitelist == Nullish(store.whitelist, <<>>)

\* C1: a message whose sender id is missing or is not the extension's id,
\* whatever its action, is answered {success: false, error: 'Unauthorized'},
\* handleMessage returns false, and no clearAll is invoked for it.
C1_UnauthorizedRejected ==
    (ev.op = "OnMessage" /\ ev.sender # <<RuntimeId>>)
        => /\ ev.response = <<[success |-> FALSE, error |-> "Unauthorized"]>>
           /\ ev.returned = "false"
           /\ ev.calls = <<>>

C1_Witness ==
    /\ ev.op = "OnMessage"
    /\ ev.sender = <<"other-id">>
    /\ ev.action = "deleteData"
    /\ ev.response = <<Unauthorized>>

\* C2: the cookie removal call made for an authorised deleteData request
\* excludes https://d and http://d for every entry d with keepCookies = 1 of
\* the whitelist the persistent store holds when the request is received.
C2_CookieCallKeepsPersistedWhitelist ==
    (ev.op = "OnMessage" /\ ev.sender = <<RuntimeId>> /\ ev.action = "deleteData")
        => \A i \in 1..Len(ev.calls) :
               ev.calls[i].pass = "cookies"
                   => \A j \in 1..Len(PersistedWhitelist) :
                          PersistedWhitelist[j].keepCookies = 1
                              => {HttpsPrefix \o PersistedWhitelist[j].domain,
                                  HttpPrefix \o PersistedWhitelist[j].domain}
                                     \subseteq Range(ev.calls[i].excludeOrigins[1])

\* C3 as claimed: a startup handler call made after an earlier call of the
\* same session invoked clearAll and returned makes no removal call,
\* whatever the outcome of the earlier call.
C3_SecondCallAlwaysNoOp ==
    (ev.op = "StartupGuardRead" /\ ev.sequel) => ev.calls = <<>>

\* C3 as amended: once a startup handler call of the session has written
\* the guard and returned (its clearAll resolved and the session-storage
\* write succeeded), a startup handler call makes no removal call.
C3_SecondCallNoOpAfterGuard ==
    (ev.op = "StartupGuardRead" /\ hist.startupGuarded) => ev.calls = <<>>

C3_Witness ==
    /\ ev.op = "StartupGuardRead"
    /\ hist.startupGuarded
    /\ ev.ok /\ ev.guard
    /\ settings.runOnStartup
    /\ ev.calls = <<>>
    /\ ev.handler = "fulfilled"

\* C4: the session guard is set only if a clearAll started by the startup
\* handler earlier in the same session resolved with every pass it initiated
\* answered without error; a startup handler whose clearAll rejects ends
\* without a write of the guard pending.
C4_GuardOnlyAfterCleanRun ==
    /\ Guard => hist.startupCleanOk
    /\ \A t \in Running : (t.kind = "startup" /\ t.pc = "set") => hist.startupCleanOk
    /\ (ev.op = "RemovalAnswered" /\ ev.kind = "startup" /\ ~ev.ok)
           => ev.handler # "none"

C4_Witness == Guard /\ ev.op = "StartupGuardWritten" /\ ev.ok

\* C5: a startup handler that finds the guard unset and runOnStartup true
\* invokes clearAll exactly once; the write of the guard is issued only
\* after that clearAll has resolved, with no pass in flight; and when the
\* write succeeds the handler ends with the guard set.
C5_CleanThenGuard ==
    /\ (ev.op = "StartupGuardRead" /\ ev.ok /\ ~ev.guard /\ settings.runOnStartup)
           => /\ ClearAlls(ev.calls) = 1
              /\ ev.handler = "none"
              /\ ~Guard
    /\ (ev.kind = "startup" /\ ev.calls # <<>>) => ev.op = "StartupGuardRead"
    /\ \A t \in Running :
           (t.kind = "startup" /\ t.pc = "set")
               => t.pending = {} /\ hist.startupCleanOk
    /\ (ev.op = "StartupGuardWritten" /\ ev.ok) => Guard /\ ev.handler = "fulfilled"

C5_Witness ==
    /\ ev.op = "StartupGuardWritten" /\ ev.ok
    /\ Guard
    /\ hist.startupCleanOk

\* C6: a startup handler that runs with runOnStartup false makes no removal
\* call and leaves the guard as it found it; a startup handler that later
\* finds the guard unset and runOnStartup true performs the cleanup.
C6_DisabledStartupLeavesGuard ==
    /\ (ev.op = "StartupGuardRead" /\ ev.ok /\ ~settings.runOnStartup)
           => /\ ev.calls = <<>>
              /\ ev.handler = "fulfilled"
              /\ Guard = ev.guard
    /\ (ev.op = "StartupGuardRead" /\ ev.ok /\ ~ev.guard /\ settings.runOnStartup)
           => ClearAlls(ev.calls) = 1

C6_Witness ==
    /\ hist.startupSkipped
    /\ ~hist.startupCleared
    /\ ev.op = "StartupGuardRead"
    /\ ClearAlls(ev.calls) = 1

\* C7: a window-close handler that found runOnClose true invokes clearAll
\* exactly once if the query of the open normal windows answers with an
\* empty list, and makes no removal call if it answers with one or more
\* windows (or fails); it makes removal calls at no other point.
C7_LastWindowDetection ==
    /\ ev.op = "CloseWindowsListed"
           => /\ (ev.ok /\ ev.windows = << <<>> >>) => ClearAlls(ev.calls) = 1
              /\ ~(ev.ok /\ ev.windows = << <<>> >>) => ev.calls = <<>>
    /\ (ev.kind = "close" /\ ev.calls # <<>>) => ev.op = "CloseWindowsListed"

C7_Witness ==
    /\ ev.op = "CloseWindowsListed"
    /\ ev.ok
    /\ ev.windows = << <<>> >>
    /\ ClearAlls(ev.calls) = 1

\* C8: the window-close handler goes on to the last-window check exactly
\* when the runOnClose the persistent store holds, read by its load(), is
\* true; when it is false or missing the handler ends with no removal call,
\* whatever runOnClose was in memory before.
C8_CloseUsesPersistedRunOnClose ==
    (ev.op = "CloseLoaded" /\ ev.ok)
        => /\ settings.runOnClose = (store.runOnClose = <<TRUE>>)
           /\ (ev.handler = "none") = (store.runOnClose = <<TRUE>>)
           /\ store.runOnClose # <<TRUE>>
                  => /\ ev.handler = "fulfilled"
                     /\ ev.calls = <<>>

C8_Witness ==
    /\ ev.op = "CloseLoaded" /\ ev.ok
    /\ ev.memory
    /\ store.runOnClose = <<FALSE>>
    /\ ev.handler = "fulfilled"

\* C9: the promises of the startup handler and of the window-close handler,
\* and those of the listeners that call them, are never rejected, whichever
\* host call failed.
C9_TriggersNeverReject ==
    /\ ev.handler # "rejected"
    /\ ev.listener # "rejected"

C9_Witness ==
    /\ ev.op = "RemovalAnswered"
    /\ ev.kind = "startup"
    /\ ~ev.ok
    /\ ev.handler = "fulfilled"
    /\ ev.listener = "fulfilled"

\* C10: a startup or window-close trigger whose read of the persistent store
\* failed makes no removal call.
C10_FailedLoadAborts ==
    /\ (ev.op = "CloseLoaded" /\ ~ev.ok) => ev.handler # "none" /\ ev.calls = <<>>
    /\ (ev.kind \in {"startup", "close"} /\ ev.loadFailed) => ev.calls = <<>>

\* the handler that invoked clearAll in the step just taken awaits exactly
\* the passes the step initiated
AwaitsInitiated ==
    \E t \in Running : t.pc = "clear" /\ t.pending = PassesOf(ev.calls)

\* C11: for a deleteData message from the extension itself no response is
\* sent when the message is handled, while clearAll is pending; the one
\* response is sent in the step in which clearAll settles: {success: true}
\* if every pass has answered without error, {success: false, error} with
\* the error of the failed pass if clearAll rejected.
C11_ResponseAfterSettled ==
    /\ (ev.op = "OnMessage" /\ ev.sender = <<RuntimeId>> /\ ev.action = "deleteData")
           => /\ ev.response = <<>>
              /\ ev.returned = "true"
              /\ AwaitsInitiated
    /\ (ev.op = "RemovalAnswered" /\ ev.kind = "message")
           => /\ Len(ev.response) = 1
              /\ ev.response[1].success = ev.ok
              /\ ev.ok => ~ev.inFlight /\ ev.response[1].error = "none"
              /\ ~ev.ok => ev.response[1].error \in Passes
    /\ \A t \in Running :
           t.kind = "message" => t.pc = "clear" /\ t.pending # {} /\ ~t.failed

C11_Witness ==
    /\ ev.op = "RemovalAnswered"
    /\ ev.kind = "message"
    /\ ev.ok /\ ~ev.inFlight
    /\ ev.response = <<[success |-> TRUE, error |-> "none"]>>

\* the data types of the bulk pass the settings select
BulkTypes ==
    {"appcache"}
    \cup (IF settings.removeDownloads THEN {"downloads"} ELSE {})
    \cup (IF settings.removeFormData THEN {"formData"} ELSE {})
    \cup (IF settings.removeHistory THEN {"history"} ELSE {})

\* C12: every step that invokes clearAll makes exactly one bulk removal
\* call, first, with since = 0, no excludeOrigins, appcache selected and
\* downloads, formData, history selected exactly when their settings are
\* true, also when all three are false.
C12_BulkPass ==
    /\ ev.calls # <<>>
           => /\ ClearAlls(ev.calls) = 1
              /\ ev.calls[1] = [pass |-> "bulk", since |-> 0, excludeOrigins |-> <<>>,
                                dataTypes |-> BulkTypes]
    /\ (ev.op = "OnMessage" /\ ev.returned = "true") => ev.calls # <<>>
    /\ (ev.op = "StartupGuardRead" /\ ev.handler = "none") => ev.calls # <<>>
    /\ (ev.op = "CloseWindowsListed" /\ ev.handler = "none") => ev.calls # <<>>

C12_Witness ==
    /\ ev.calls # <<>>
    /\ ~settings.removeDownloads /\ ~settings.removeFormData /\ ~settings.removeHistory
    /\ ev.calls[1].pass = "bulk"
    /\ ev.calls[1].dataTypes = {"appcache"}

CacheTypes ==
    {"cacheStorage", "cache", "fileSystems", "indexedDB", "localStorage",
     "serviceWorkers", "webSQL"}

\* C13: a step that invokes clearAll makes a cookie removal call iff
\* removeCookies is true and a cache/storage removal call iff
\* removeCacheAndStorage is true, each at most once; clearAll awaits exactly
\* the calls made (a skipped pass counts as succeeded); the data types
\* passed are those of the enabled categories and no other.
C13_OptionalPasses ==
    ev.calls # <<>>
        => /\ ("cookies" \in PassesOf(ev.calls)) = settings.removeCookies
           /\ ("cache" \in PassesOf(ev.calls)) = settings.removeCacheAndStorage
           /\ Len(ev.calls) = 1 + (IF settings.removeCookies THEN 1 ELSE 0)
                                + (IF settings.removeCacheAndStorage THEN 1 ELSE 0)
           /\ Cardinality(PassesOf(ev.calls)) = Len(ev.calls)
           /\ UNION {ev.calls[i].dataTypes : i \in 1..Len(ev.calls)}
                  = BulkTypes
                    \cup (IF settings.removeCookies THEN {"cookies"} ELSE {})
                    \cup (IF settings.removeCacheAndStorage THEN CacheTypes ELSE {})
           /\ AwaitsInitiated

C13_Witness ==
    /\ settings.removeCookies /\ ~settings.removeCacheAndStorage
    /\ PassesOf(ev.calls) = {"bulk", "cookies"}
    /\ Len(ev.calls) = 2

\* the origins the call of a pass excludes
Excluded(call) == Range(call.excludeOrigins[1])

\* the two origins of a domain
OriginPair(domain) == {HttpsPrefix \o domain, HttpPrefix \o domain}

\* C14: in every clearAll the cookie call excludes exactly
\* getOriginsByFlag(keepCookies) and the cache/storage call exactly
\* getOriginsByFlag(keepCache) of the in-memory whitelist of that step; an
\* entry's origins are excluded from a pass exactly when its flag for that
\* pass is 1, whatever its other flag.
C14_ExcludedOrigins ==
    \A i \in 1..Len(ev.calls) :
        LET call == ev.calls[i]
            flag == IF call.pass = "cookies" THEN "keepCookies" ELSE "keepCache"
        IN  call.pass \in {"cookies", "cache"}
                => /\ call.excludeOrigins = <<getOriginsByFlag(settings.whitelist, flag)>>
                   /\ \A j \in 1..Len(settings.whitelist) :
                          LET entry == settings.whitelist[j]
                          IN  IF entry[flag] = 1
                              THEN OriginPair(entry.domain) \subseteq Excluded(call)
                              ELSE OriginPair(entry.domain) \cap Excluded(call) = {}

C14_Witness ==
    \E i, j \in 1..Len(ev.calls) :
        /\ ev.calls[i].pass = "cookies"
        /\ ev.calls[j].pass = "cache"
        /\ Excluded(ev.calls[i]) = OriginPair(DomainA)
        /\ Excluded(ev.calls[j]) = OriginPair(DomainB)

\* C15: clearAll rejects at the first answer that reports a failure, with
\* that pass's error, its other passes answered or not: no handler goes on
\* waiting after a failed pass; and every pass the settings enable was
\* initiated in the step that invoked clearAll, before any answer.
C15_FirstFailureRejects ==
    /\ \A t \in Running : ~t.failed
    /\ (ev.op = "RemovalAnswered" /\ ~ev.ok)
           => /\ ev.kind = "message"
                     => /\ Len(ev.response) = 1
                        /\ ~ev.response[1].success
                        /\ ev.response[1].error \in Passes
              /\ ev.kind \in {"startup", "close"} => ev.handler = "fulfilled"
    /\ ev.calls # <<>>
           => /\ PassesOf(ev.calls)
                     = {"bulk"}
                       \cup (IF settings.removeCookies THEN {"cookies"} ELSE {})
                       \cup (IF settings.removeCacheAndStorage THEN {"cache"} ELSE {})
              /\ AwaitsInitiated

C15_Witness ==
    /\ ev.op = "RemovalAnswered"
    /\ ev.kind = "message"
    /\ ~ev.ok
    /\ ev.inFlight
    /\ ev.response = <<[success |-> FALSE, error |-> "cookies"]>>

\* the origins the claim describes: in whitelist order, https://d then
\* http://d for each entry whose flag is 1
RECURSIVE ExpectedOrigins(_, _)
ExpectedOrigins(whitelist, flagName) ==
    IF whitelist = <<>> THEN <<>>
    ELSE (IF Head(whitelist)[flagName] = 1
          THEN <<HttpsPrefix \o Head(whitelist).domain, HttpPrefix \o Head(whitelist).domain>>
          ELSE <<>>)
         \o ExpectedOrigins(Tail(whitelist), flagName)

\* every whitelist of at most MaxWhitelist entries over two domains and
\* the flag values the save handler and the popup store
SampleEntries ==
    [domain : {DomainA, DomainB}, keepCookies : {0, 1}, keepCache : {0, 1}]

SampleWhitelists == UNION {[1..n -> SampleEntries] : n \in 0..MaxWhitelist}

OriginsAsClaimed(whitelist) ==
    \A flagName \in {"keepCookies", "keepCache"} :
        /\ getOriginsByFlag(whitelist, flagName) = ExpectedOrigins(whitelist, flagName)
        /\ Len(getOriginsByFlag(whitelist, flagName))
               = 2 * Cardinality({i \in 1..Len(whitelist) : whitelist[i][flagName] = 1})

\* C16: for the in-memory whitelist of every step that invokes clearAll,
\* and for every whitelist of at most MaxWhitelist entries, and each of the
\* two flags, getOriginsByFlag returns, in whitelist order, https://d then
\* http://d for each entry whose flag is 1 and nothing for the others,
\* 2 x (number of entries with the flag = 1) origins in all.
C16_OriginsByFlag ==
    /\ ev.calls # <<>> => OriginsAsClaimed(settings.whitelist)
    /\ ev.op = "init" => \A whitelist \in SampleWhitelists : OriginsAsClaimed(whitelist)

C16_Witness ==
    /\ \E i \in 1..Len(ev.calls) :
           /\ ev.calls[i].pass = "cache"
           /\ ev.calls[i].excludeOrigins = <<getOriginsByFlag(settings.whitelist, "keepCache")>>
    /\ Len(settings.whitelist) = 2
    /\ settings.whitelist[1].keepCache = 0
    /\ settings.whitelist[2].keepCache = 1
    /\ getOriginsByFlag(settings.whitelist, "keepCache")
           = <<HttpsPrefix \o DomainB, HttpPrefix \o DomainB>>

\* the steps in which a load() of the settings is answered
LoadOps == {"StartupLoaded", "CloseLoaded", "InstalledLoaded"}

\* the value the store holds for a key, or the documented default
PersistedOr(key, dflt) == IF store[key] = <<>> THEN dflt ELSE store[key][1]

\* C17: after a load() whose read succeeded, each of the eight in-memory
\* fields is the value the store holds for it, an explicit false included,
\* or its default when the store holds none (whitelist [], runOnStartup and
\* runOnClose false, the five remove* flags true); from an empty store the
\* settings are those of a new SettingsManager.
C17_LoadAppliesStore ==
    (ev.op \in LoadOps /\ ev.ok)
        => /\ settings.whitelist = PersistedOr("whitelist", <<>>)
           /\ settings.runOnStartup = PersistedOr("runOnStartup", FALSE)
           /\ settings.runOnClose = PersistedOr("runOnClose", FALSE)
           /\ settings.removeDownloads = PersistedOr("removeDownloads", TRUE)
           /\ settings.removeFormData = PersistedOr("removeFormData", TRUE)
           /\ settings.removeHistory = PersistedOr("removeHistory", TRUE)
           /\ settings.removeCookies = PersistedOr("removeCookies", TRUE)
           /\ settings.removeCacheAndStorage = PersistedOr("removeCacheAndStorage", TRUE)
           /\ DOMAIN settings = {"whitelist", "runOnStartup", "runOnClose",
                                 "removeDownloads", "removeFormData", "removeHistory",
                                 "removeCookies", "removeCacheAndStorage"}
           /\ (\A key \in DOMAIN store : store[key] = <<>>) => settings = initializeDefaults

C17_Witness ==
    /\ ev.op \in LoadOps /\ ev.ok
    /\ store.removeDownloads = <<FALSE>> /\ ~settings.removeDownloads
    /\ store.runOnStartup = <<TRUE>> /\ settings.runOnStartup
    /\ store.removeFormData = <<TRUE>> /\ settings.removeFormData

\* C18: a load() whose read of the store fails leaves the in-memory
\* settings exactly as they were and rejects: the window-close handler, which
\* awaits it directly, ends in its catch block without going on.
C18_FailedLoadKeepsSettings ==
    [][(ev'.op \in LoadOps /\ ~ev'.ok)
          => /\ settings' = settings
             /\ ev'.op = "CloseLoaded"
                    => /\ ev'.handler = "fulfilled"
                       /\ \A t \in BagToSet(tasks') :
                              t.kind = "close" /\ t.pc = "windows" => t \in Running]_vars

C18_Witness ==
    /\ ev.op = "CloseLoaded" /\ ~ev.ok
    /\ ev.memory
    /\ settings.runOnClose
    /\ settings # initializeDefaults
    /\ ev.handler = "fulfilled"

\* the entries the two valid form texts describe
ExpectedEntries(text) ==
    IF text = TextOne
    THEN <<[domain |-> DomainA, keepCookies |-> 1, keepCache |-> 1]>>
    ELSE <<[domain |-> DomainA, keepCookies |-> 1, keepCache |-> 0],
           [domain |-> DomainB, keepCookies |-> 0, keepCache |-> 1]>>

\* C19: a save whose form has a line that does not parse, or two entries
\* with the same domain, leaves the store as it was; any other save whose
\* write succeeds replaces the store by the parsed whitelist and the seven
\* checkbox values, all eight keys in the one step.
C19_SaveAllOrNothing ==
    [][ev'.op = "OptionsSave"
          => IF ev'.text \in {TextBadFlag, TextDuplicate, TextBadDomain} \/ ~ev'.ok
             THEN store' = store
             ELSE /\ DOMAIN store' = {"whitelist", "runOnStartup", "runOnClose",
                                      "removeDownloads", "removeFormData",
                                      "removeHistory", "removeCookies",
                                      "removeCacheAndStorage"}
                  /\ store'.whitelist = <<ExpectedEntries(ev'.text)>>
                  /\ \A key \in DOMAIN store' \ {"whitelist"} :
                         store'[key] = <<ev'.flags[1][key]>>]_vars

C19_Witness ==
    /\ ev.op = "OptionsSave"
    /\ ev.text = TextDuplicate
    /\ store \in InitStores \ {EmptyStore}

NoDuplicates(whitelist) ==
    \A i, j \in 1..Len(whitelist) : whitelist[i].domain = whitelist[j].domain => i = j

\* C20: the whitelist in the store never holds two entries with the same
\* domain, nor does a whitelist the popup is about to write, whatever the
\* saves and toggles and however the reads and writes of toggles interleave.
C20_PersistedWhitelistUnique ==
    /\ NoDuplicates(PersistedWhitelist)
    /\ \A t \in Running : t.kind = "popup" => NoDuplicates(t.whitelist)

C20_Witness ==
    /\ store.whitelist = << <<[domain |-> Localhost, keepCookies |-> 1, keepCache |-> 1]>> >>
    /\ store.runOnStartup = <<>>
    /\ \E t \in Running :
           /\ t.kind = "popup" /\ t.pc = "set"
           /\ t.whitelist = <<[domain |-> Localhost, keepCookies |-> 1, keepCache |-> 1]>>

\* C21: every entry of the whitelist in the store, whatever saves and
\* popup toggles came before, has a domain validateDomainName accepts and
\* keepCookies, keepCache each 0 or 1.
C21_PersistedEntriesValid ==
    \A i \in 1..Len(PersistedWhitelist) :
        /\ validateDomainName(PersistedWhitelist[i].domain).valid
        /\ PersistedWhitelist[i].keepCookies \in {0, 1}
        /\ PersistedWhitelist[i].keepCache \in {0, 1}

\* domains the validation accepts: lower and upper case, digits, a hyphen,
\* three labels
DomainUpper == <<"A", ".", "C", "O">>
DomainHyphen == <<"x", "-", "1", ".", "b", ".", "c", "o">>

RoundTripEntries ==
    [domain : {DomainA, DomainUpper, DomainHyphen}, keepCookies : {0, 1}, keepCache : {0, 1}]

\* every whitelist of at most MaxWhitelist entries with unique domains
RoundTripWhitelists ==
    {whitelist \in UNION {[1..n -> RoundTripEntries] : n \in 0..MaxWhitelist} :
        NoDuplicates(whitelist)}

\* the whitelist survives the text format: its text has one line per
\* entry, every line parses to the entry it came from, and the save handler
\* finds nothing wrong with the text
RoundTrips(whitelist) ==
    LET lines == FormLines(SerializeWhitelist(whitelist))
    IN  /\ Len(lines) = Len(whitelist)
        /\ \A i \in 1..Len(lines) :
               parseWhitelistLine(lines[i], i - 1) = ParseOk(whitelist[i])
        /\ SaveForm(SerializeWhitelist(whitelist))
               = [whitelist |-> whitelist, invalidLines |-> <<>>,
                  duplicates |-> {}, write |-> TRUE]

ValidEntries(whitelist) ==
    \A i \in 1..Len(whitelist) :
        /\ validateDomainName(whitelist[i].domain).valid
        /\ whitelist[i].keepCookies \in {0, 1}
        /\ whitelist[i].keepCache \in {0, 1}

\* for each form text the save handler writes: the whitelist written is
\* as the claim wants it and survives the text format
SavedRoundTrips ==
    [text \in FormTexts |->
        Forms[text].write
            => /\ ValidEntries(Forms[text].whitelist)
               /\ NoDuplicates(Forms[text].whitelist)
               /\ RoundTrips(Forms[text].whitelist)]

\* C22: a whitelist with unique, valid domains and flags 0 or 1, written
\* as the options page displays it (one line domain,keepCookies,keepCache
\* per entry) and parsed again line by line, gives the same entries in the
\* same order and no rejected line: for the stored whitelist after every
\* save and for every sample whitelist of at most MaxWhitelist entries.
C22_TextRoundTrip ==
    /\ (ev.op = "OptionsSave" /\ ev.flags # <<>>)
           => /\ PersistedWhitelist = Forms[ev.text].whitelist
              /\ SavedRoundTrips[ev.text]
    /\ ev.op = "init"
           => \A whitelist \in RoundTripWhitelists :
                  ValidEntries(whitelist) /\ RoundTrips(whitelist)

C22_Witness ==
    /\ ev.op = "OptionsSave"
    /\ ev.text = TextTwo
    /\ PersistedWhitelist = ExpectedEntries(TextTwo)
    /\ SerializeWhitelist(PersistedWhitelist)
           = DomainA \o <<",", "1", ",", "0", "\n">> \o DomainB \o <<",", "0", ",", "1">>
    /\ RoundTrips(PersistedWhitelist)

\* what can follow the domain in a line: flags, a number that is no flag,
\* nothing, a flag in spaces, two digits, a word
FlagTexts == {<<"0">>, <<"1">>, <<"2">>, <<>>, <<" ", "1">>, <<"1", "0">>, <<"o", "n">>}

\* lines whose first part is a valid domain, followed by no, one, two, ...
\* MaxFlagParts further parts
RECURSIVE LinesWithParts(_)
LinesWithParts(n) ==
    IF n = 0 THEN {DomainA, <<" ">> \o DomainUpper \o <<" ">>}
    ELSE {line \o <<",">> \o part : line \in LinesWithParts(n - 1), part \in FlagTexts}

SampleLines == UNION {LinesWithParts(n) : n \in 0..MaxFlagParts}

\* the number a flag part stands for
FlagNumber(part) == IF part = <<"1">> THEN 1 ELSE 0

\* the result the claim describes, from the parts as the parser takes them
\* (split on commas, each trimmed)
ExpectedParse(line, lineIndex) ==
    LET parts == MapSeq(Split(line, ","), Trim)
        literal(part) == part \in {<<"0">>, <<"1">>}
    IN  IF Len(parts) = 1
        THEN [success |-> TRUE,
              entry |-> <<[domain |-> parts[1], keepCookies |-> 1, keepCache |-> 1]>>,
              error |-> <<>>]
        ELSE IF Len(parts) = 3 /\ literal(parts[2]) /\ literal(parts[3])
        THEN [success |-> TRUE,
              entry |-> <<[domain |-> parts[1], keepCookies |-> FlagNumber(parts[2]),
                           keepCache |-> FlagNumber(parts[3])]>>,
              error |-> <<>>]
        ELSE [success |-> FALSE, entry |-> <<>>,
              error |-> <<[lineNumber |-> lineIndex + 1,
                           reason |-> IF Len(parts) = 3 THEN "flag" ELSE "format",
                           line |-> line]>>]

\* for each form text: its lines with a valid domain parse as claimed
FormsParseAsClaimed ==
    [text \in FormTexts |->
        \A i \in 1..Len(FormLines(text)) :
            validateDomainName(Trim(Split(FormLines(text)[i], ",")[1])).valid
                => parseWhitelistLine(FormLines(text)[i], i - 1)
                       = ExpectedParse(FormLines(text)[i], i - 1)]

\* C23: for a line whose first part is a valid domain, parseWhitelistLine
\* succeeds exactly for one part (entry with both flags 1) and for three
\* parts whose second and third are each the literal 0 or 1 (entry with
\* those flags as numbers); with two parts, four or more parts, or another
\* flag value it fails with entry null and an error that cites line number
\* index + 1: for every sample line, and for the lines of every form saved.
C23_ParseShapes ==
    /\ ev.op = "init"
           => \A line \in SampleLines, lineIndex \in 0..MaxFlagParts :
                  /\ validateDomainName(Trim(Split(line, ",")[1])).valid
                  /\ parseWhitelistLine(line, lineIndex) = ExpectedParse(line, lineIndex)
    /\ (ev.op = "OptionsSave" /\ ev.text # <<>>) => FormsParseAsClaimed[ev.text]

C23_Witness ==
    /\ ev.op = "OptionsSave"
    /\ ev.text = TextBadFlag
    /\ Forms[ev.text].whitelist = <<>>
    /\ Forms[ev.text].invalidLines
           = <<[lineNumber |-> 1, reason |-> "flag", line |-> TextBadFlag]>>

\* a letter of each case, a digit, the hyphen, the dot, the wildcard and a
\* character outside ASCII
DomainChars == {"a", "Z", "1", "-", ".", "*", "U+00E9"}

ShortStrings == UNION {[1..n -> DomainChars] : n \in 0..MaxDomainChars}

Repeat(c, n) == [i \in 1..n |-> c]

\* a label of the greatest length allowed
LongLabel == Repeat("a", MaxLabelLength)

\* strings at the limits of 63 characters a label and 253 in all: a first
\* label of 63 and of 64, a last label of 63 and of 64, a hyphen inside a
\* label of 63, four labels making 253 and 254 characters
LongStrings ==
    {LongLabel \o <<".", "c", "o">>,
     LongLabel \o <<"a", ".", "c", "o">>,
     <<"a", ".">> \o LongLabel,
     <<"a", ".">> \o LongLabel \o <<"a">>,
     <<"a", "-">> \o Repeat("1", MaxLabelLength - 3) \o <<"Z", ".", "c", "o">>,
     LongLabel \o <<".">> \o LongLabel \o <<".">> \o LongLabel \o <<".">>
         \o Repeat("c", MaxDomainLength - 3 * (MaxLabelLength + 1)),
     LongLabel \o <<".">> \o LongLabel \o <<".">> \o LongLabel \o <<".">>
         \o Repeat("c", MaxDomainLength - 3 * (MaxLabelLength + 1) + 1)}

\* the inputs the claim says are rejected
ClaimedInvalid(s) ==
    \/ \E i \in 1..Len(s) : s[i] = "*"
    \/ \E i \in 1..(Len(s) - 1) : s[i] = "." /\ s[i + 1] = "."
    \/ s # <<>> /\ (s[1] = "." \/ s[Len(s)] = ".")
    \/ \E i \in 1..Len(Split(s, ".")) : Len(Split(s, ".")[i]) > 63
    \/ \E i \in 1..Len(s) : s[i] \notin Letters \cup Digits \cup {"-", ".", "*"}

\* a label as the claim describes it: 1 to 63 characters, letters and
\* digits, hyphens only inside
ClaimedLabel(l) ==
    /\ Len(l) \in 1..63
    /\ \A i \in 1..Len(l) : l[i] \in Letters \cup Digits \cup {"-"}
    /\ l[1] # "-" /\ l[Len(l)] # "-"

\* the inputs the claim says are accepted: at most 253 characters, two or
\* more labels separated by dots, the last one of two or more letters
ClaimedValid(s) ==
    LET labels == Split(s, ".")
    IN  /\ Len(s) <= 253
        /\ Len(labels) >= 2
        /\ \A i \in 1..Len(labels) : ClaimedLabel(labels[i])
        /\ Len(labels[Len(labels)]) >= 2
        /\ \A i \in 1..Len(labels[Len(labels)]) : labels[Len(labels)][i] \in Letters

ClaimedVerdict(s) ==
    /\ ClaimedInvalid(s) => ~validateDomainName(s).valid
    /\ ClaimedValid(s) => validateDomainName(s).valid

\* for each form text: the domain of every line gets the verdict claimed
FormsVerdictAsClaimed ==
    [text \in FormTexts |->
        \A i \in 1..Len(FormLines(text)) :
            ClaimedVerdict(Trim(Split(FormLines(text)[i], ",")[1]))]

\* C24: validateDomainName rejects every input with a wildcard, two dots
\* in a row, a dot first or last, a label of more than 63 characters or a
\* character outside ASCII, and accepts every input of at most 253
\* characters made of labels of 1 to 63 letters, digits and inner hyphens
\* separated by dots, the last label of two or more letters: for every
\* string of at most MaxDomainChars characters, for the strings at the
\* length limits, and for the domain of every line of a form saved.
C24_DomainVerdict ==
    /\ ev.op = "init" => \A s \in ShortStrings \cup LongStrings : ClaimedVerdict(s)
    /\ (ev.op = "OptionsSave" /\ ev.text # <<>>) => FormsVerdictAsClaimed[ev.text]

C24_Witness ==
    /\ ev.op = "OptionsSave"
    /\ ev.text = TextBadDomain
    /\ ClaimedInvalid(<<"*", ".", "c", "o">>)
    /\ Len(Forms[ev.text].invalidLines) = 1
    /\ Forms[ev.text].invalidLines[1].reason = "wildcard"
    /\ Forms[ev.text].whitelist = <<>>

\* the handlers of deleteData messages that have still to respond
Responders(bag) == BagCardinality([t \in {u \in BagToSet(bag) : u.kind = "message"} |-> bag[t]])

\* C25: handleMessage returns true exactly for a deleteData message of the
\* extension itself, and then leaves one handler that responds later;
\* when it returns false (sender not authorised, unknown action, exception
\* thrown while handling) it leaves no handler behind, so that no response
\* follows the return; an unknown action of the extension itself gets no
\* response and no removal call; and a response outside handleMessage is
\* always the one of a handler left by a true return.
C25_WillRespondLater ==
    [][/\ ev'.op = "OnMessage"
          => /\ ev'.returned \in {"true", "false"}
             /\ (ev'.returned = "true")
                    = (ev'.sender = <<RuntimeId>> /\ ev'.action = "deleteData")
             /\ ev'.returned = "true"
                    => /\ ev'.response = <<>>
                       /\ Responders(tasks') = Responders(tasks) + 1
             /\ ev'.returned = "false" => tasks' = tasks /\ ev'.calls = <<>>
             /\ (ev'.sender = <<RuntimeId>> /\ ev'.action = "ping")
                    => ev'.response = <<>> /\ ev'.calls = <<>>
             /\ (ev'.sender = <<RuntimeId>> /\ ev'.action = "null")
                    => ev'.response = <<[success |-> FALSE, error |-> TypeError]>>
       /\ (ev'.op # "OnMessage" /\ ev'.response # <<>>)
          => Responders(tasks') = Responders(tasks) - 1]_vars

C25_Witness ==
    /\ ev.op = "OnMessage"
    /\ ev.sender = <<RuntimeId>>
    /\ ev.action = "ping"
    /\ ev.returned = "false"
    /\ ev.response = <<>>
    /\ ev.calls = <<>>
    /\ Responders(tasks) = 1

\* the invocations of clearAll a handler can be waiting for: the handler
\* and the passes still in flight
ClearTasks ==
    {[Task(kind, "clear") EXCEPT !.pending = pending] :
        kind \in {"message", "startup", "close"}, pending \in (SUBSET Passes) \ {{}}}

\* C26: while the background process runs and the removal API answers
\* every call, the handlers of each kind that wait for a clearAll all come
\* to an end of their wait, and every deleteData message of the extension
\* gets its response, whatever messages, startups, window closes,
\* installs, saves and popup clicks arrive meanwhile: a handler waiting for
\* clearAll stops waiting only through an answer to one of its passes, the
\* answer to a pass in flight can always be delivered, and a handler of a
\* message ends only by sending its response.
C26_ClearAllSettles ==
    /\ [][\A t \in Running :
              (t.pc = "clear" /\ CopiesIn(t, tasks') < CopiesIn(t, tasks))
                  => \E pass \in t.pending, ok \in BOOLEAN : RemovalAnswered(t, pass, ok)]_vars
    /\ [][Responders(tasks') < Responders(tasks)
              => ev'.op = "RemovalAnswered" /\ Len(ev'.response) = 1]_vars
    /\ [](\A t \in Running :
              t.pc = "clear"
                  => /\ t \in ClearTasks
                     /\ \A pass \in t.pending : ENABLED RemovalAnswered(t, pass, TRUE))
    /\ \A kind \in {"message", "startup", "close"} :
           (\E t \in Running : t.kind = kind /\ t.pc = "clear")
               ~> ~(\E t \in Running : t.kind = kind /\ t.pc = "clear")

C26_Witness ==
    /\ ev.op = "RemovalAnswered"
    /\ ev.kind = "message"
    /\ ev.response = <<[success |-> TRUE, error |-> "none"]>>
    /\ \E t \in Running : t.kind = "close" /\ t.pc = "clear"
    /\ nEvents = MaxEvents

\* C27: the session guard changes only by the startup handler's write,
\* from unset to true, or by the end of the browser session, which empties
\* the session storage; it is never false; the steps of the message
\* handler, of the window-close handler, of a settings load and the answers
\* to clearAll's passes leave it as it was.
C27_GuardWrittenOnlyByStartup ==
    [][/\ session' # session
          => \/ BrowserRestart
             \/ /\ ev'.op = "StartupGuardWritten"
                /\ ev'.kind = "startup"
                /\ ev'.ok
                /\ session.startupCleanExecuted = <<>>
                /\ session'.startupCleanExecuted = <<TRUE>>
       /\ session'.startupCleanExecuted \in {<<>>, <<TRUE>>}
       /\ ev'.op \in {"OnMessage", "RemovalAnswered", "CloseLoaded", "CloseWindowsListed",
                      "StartupLoaded", "InstalledLoaded", "StartupGuardRead", "OptionsSave"}
          => session' = session
       /\ ev'.kind \in {"message", "close", "installed", "options"} => session' = session]_vars

C27_Witness ==
    /\ Guard
    /\ ev.op = "CloseWindowsListed"
    /\ ev.calls # <<>>
    /\ hist.startupGuarded

\* the call of a pass, made from the settings value s
FromSettings(call, s) ==
    /\ call.pass = "bulk"
           => call.dataTypes = {"appcache"}
                               \cup (IF s.removeDownloads THEN {"downloads"} ELSE {})
                               \cup (IF s.removeFormData THEN {"formData"} ELSE {})
                               \cup (IF s.removeHistory THEN {"history"} ELSE {})
    /\ call.pass = "cookies"
           => /\ s.removeCookies
              /\ call.excludeOrigins = <<getOriginsByFlag(s.whitelist, "keepCookies")>>
    /\ call.pass = "cache"
           => /\ s.removeCacheAndStorage
              /\ call.excludeOrigins = <<getOriginsByFlag(s.whitelist, "keepCache")>>

\* C28: the passes of one clearAll are all started in one step, from one
\* settings value, the one in memory before and after that step: a step
\* that changes the settings in memory issues no removal call, a step that
\* issues removal calls leaves the settings as they were and takes every
\* call's flags and whitelist from them, also while a load() of a
\* window-close handler is in flight, and no later step adds a pass to a
\* clearAll that has started.
C28_PassesReadOneSettings ==
    [][/\ settings' # settings => ev'.calls = <<>>
       /\ ev'.calls # <<>>
          => /\ settings' = settings
             /\ \A i \in 1..Len(ev'.calls) : FromSettings(ev'.calls[i], settings)
             /\ "cookies" \notin PassesOf(ev'.calls) => ~settings.removeCookies
             /\ "cache" \notin PassesOf(ev'.calls) => ~settings.removeCacheAndStorage
       /\ \A t \in BagToSet(tasks') :
              (t.pc = "clear" /\ t \notin Running)
                  => \/ t.pending = PassesOf(ev'.calls)
                     \/ \E u \in Running :
                            /\ u.pc = "clear" /\ u.kind = t.kind
                            /\ t.pending \subseteq u.pending /\ t.pending # u.pending]_vars

C28_Witness ==
    /\ PassesOf(ev.calls) = Passes
    /\ \E t \in Running : t.kind = "close" /\ t.pc = "load"
    /\ store.whitelist # <<>>
    /\ store.whitelist # <<settings.whitelist>>
    /\ \E i \in 1..Len(ev.calls) :
           /\ ev.calls[i].pass = "cache"
           /\ ev.calls[i].excludeOrigins = <<getOriginsByFlag(settings.whitelist, "keepCache")>>

\* C29: a step in which a clearAll resolves, so that {success: true} is sent
\* or the startup handler goes on to write the guard, is the answer to the
\* last removal call of that clearAll still in flight, an answer without
\* error like every earlier one: the task that awaited it had exactly
\* one pass pending and none failed, and after the step no pass of it is
\* left.
C29_ResolvedAfterEveryCall ==
    [][\A t \in Running :
           (/\ t.pc = "clear"
            /\ CopiesIn(t, tasks') < CopiesIn(t, tasks)
            /\ ev'.op = "RemovalAnswered"
            /\ \/ ev'.response = <<[success |-> TRUE, error |-> "none"]>>
               \/ t.kind = "startup" /\ ev'.handler = "none")
               => /\ Cardinality(t.pending) = 1
                  /\ ~t.failed
                  /\ ev'.ok
                  /\ ~ev'.inFlight
                  /\ t.kind = "startup"
                         => /\ hist'.startupCleanOk
                            /\ \E u \in BagToSet(tasks') :
                                   u.kind = "startup" /\ u.pc = "set" /\ u.pending = {}]_vars

C29_Witness ==
    /\ ev.op = "RemovalAnswered"
    /\ ev.kind = "startup"
    /\ ev.ok
    /\ ev.handler = "none"
    /\ hist.startupCleanOk
    /\ settings.removeCookies /\ settings.removeCacheAndStorage
    /\ \E t \in Running : t.kind = "startup" /\ t.pc = "set"

\* C30: a popup toggle whose write succeeds leaves in the store the
\* whitelist the store held just before that write, with the popup's domain
\* removed if it was present and appended with keepCookies = 1 and
\* keepCache = 1 otherwise, whatever an options-page save or another popup
\* wrote after the toggle read the store.
C30_ToggleKeepsConcurrentWrite ==
    [][\A t \in Running :
           PopupWritten(t, TRUE)
               => store'.whitelist = <<ToggleWhitelist(PersistedWhitelist, t.domain)>>]_vars

\* the entries of a whitelist for domains other than d, in order
Others(whitelist, d) == SelectSeq(whitelist, LAMBDA entry : entry.domain # d)

DomainsOf(whitelist) == {whitelist[i].domain : i \in 1..Len(whitelist)}

\* C31: the write of a popup toggle changes no key of the store but the
\* whitelist, which becomes the list the toggle computed; that list keeps
\* the entries of the whitelist read for every other domain, with their
\* flags and in their order, and holds the popup's domain exactly when the
\* whitelist read did not; toggling the same domain on it once more gives
\* back the set of domains of the whitelist read.
C31_ToggleWritesWhitelistOnly ==
    [][\A t \in Running :
           /\ \A setOk \in BOOLEAN :
                  PopupWritten(t, setOk)
                      => /\ \A k \in FlagKeys : store'[k] = store[k]
                         /\ store'.whitelist = IF setOk THEN <<t.whitelist>>
                                               ELSE store.whitelist
           /\ PopupRead(t, TRUE)
                  => \E u \in BagToSet(tasks') :
                         /\ tasks' = Resume(t, u)
                         /\ u.pc = "set" /\ u.domain = t.domain
                         /\ Others(u.whitelist, t.domain)
                                = Others(PersistedWhitelist, t.domain)
                         /\ (t.domain \in DomainsOf(u.whitelist))
                                = (t.domain \notin DomainsOf(PersistedWhitelist))
                         /\ DomainsOf(ToggleWhitelist(u.whitelist, t.domain))
                                = DomainsOf(PersistedWhitelist)]_vars

\* a first toggle has added localhost after the two saved entries and left
\* the flags; a second toggle, which read that whitelist, is about to write
\* the two saved entries back
C31_Witness ==
    /\ store = SavedStore(Forms[TextTwo].whitelist
                              \o <<[domain |-> Localhost, keepCookies |-> 1, keepCache |-> 1]>>,
                          Flags(TRUE, TRUE, TRUE, TRUE, TRUE, TRUE, TRUE))
    /\ \E t \in Running :
           /\ t.kind = "popup" /\ t.pc = "set"
           /\ t.domain = Localhost
           /\ t.whitelist = Forms[TextTwo].whitelist

\* the positions, in the submitted text, of its non-blank lines
NonBlankPositions(text) ==
    LET ls == Split(text, "\n")
    IN  SelectSeq([i \in 1..Len(ls) |-> i], LAMBDA i : Len(Trim(ls[i])) > 0)

\* for each text of the form: every diagnostic of the save handler cites the
\* position in the text of the line it quotes, and every duplicate
\* diagnostic the position of the duplicate entry's line
CitesSubmittedLines ==
    [text \in FormTexts |->
        LET form == Forms[text]
            ls == Split(text, "\n")
            pos == NonBlankPositions(text)
        IN  /\ \A i \in 1..Len(form.invalidLines) :
                   LET cited == form.invalidLines[i]
                   IN  /\ cited.lineNumber \in Range(pos)
                       /\ Trim(ls[cited.lineNumber]) = cited.line
            /\ form.invalidLines = <<>> => \A i \in form.duplicates : pos[i] = i]

\* C32: in a save of the options page, the line number of each diagnostic
\* is the 1-based position of the offending line in the submitted text,
\* also when blank lines come before it.
C32_DiagnosticsCiteSubmittedLine ==
    (ev.op = "OptionsSave" /\ ev.text # <<>>) => CitesSubmittedLines[ev.text]

\* the checks of a domain name in the order claimed
CheckOrder ==
    <<"empty", "tooLong", "dangerousChar", "wildcard", "nonAscii", "pattern",
      "consecutiveDots", "edgeDot", "labelTooLong">>

\* whether a string fails the check of that name, taken alone
CheckFails(name, s) ==
    CASE name = "empty" -> Len(s) = 0
      [] name = "tooLong" -> Len(s) > 253
      [] name = "dangerousChar" -> \E i \in 1..Len(s) : s[i] \in DangerousChars
      [] name = "wildcard" -> \E i \in 1..Len(s) : s[i] = "*"
      [] name = "nonAscii" -> \E i \in 1..Len(s) : s[i] \in NonAsciiChars
      [] name = "pattern" -> ~DOMAIN_REGEX(s)
      [] name = "consecutiveDots" ->
             \E i \in 1..(Len(s) - 1) : s[i] = "." /\ s[i + 1] = "."
      [] name = "edgeDot" -> s # <<>> /\ (s[1] = "." \/ s[Len(s)] = ".")
      [] name = "labelTooLong" ->
             \E i \in 1..Len(Split(s, ".")) : Len(Split(s, ".")[i]) > 63

FailedChecks(s) == {k \in 1..Len(CheckOrder) : CheckFails(CheckOrder[k], s)}

\* the one error the claim describes: that of the first check that fails
FirstFailure(s) ==
    IF FailedChecks(s) = {} THEN "null"
    ELSE CheckOrder[CHOOSE k \in FailedChecks(s) : \A j \in FailedChecks(s) : k <= j]

\* a letter, the dot, the wildcard, a character outside ASCII, a special
\* space outside ASCII and a control character
OrderChars == {"a", ".", "*", "U+00E9", "U+2003", "\t"}

\* strings of fewer than MaxDomainChars characters, which fail several
\* checks at once, and strings at the length limits
OrderStrings ==
    UNION {[1..n -> OrderChars] : n \in 0..(MaxDomainChars - 1)}
    \cup LongStrings
    \cup {Repeat("*", MaxDomainLength + 1),
          <<"\t">> \o Repeat("a", MaxDomainLength),
          <<"U+00E9", ".", ".">> \o LongLabel \o <<"a">>}

\* what follows the first part of a line: nothing, one flag, two flags, a
\* number that is no flag, three flags, an empty part
PartsAfter ==
    {<<>>, <<",", "1">>, <<",", "1", ",", "0">>, <<",", "2", ",", "1">>,
     <<",", "1", ",", "1", ",", "1">>, <<",">>}

\* for each form text: every line whose domain fails a check has the
\* diagnostic of the first check its domain fails
FormsReportFirstFailure ==
    [text \in FormTexts |->
        LET lines == FormLines(text)
            domainOf(i) == Trim(Split(lines[i], ",")[1])
            bad == SelectSeq([i \in 1..Len(lines) |-> i],
                             LAMBDA i : FailedChecks(domainOf(i)) # {})
        IN  /\ Len(Forms[text].invalidLines) >= Len(bad)
            /\ \A i \in 1..Len(lines) :
                   FailedChecks(domainOf(i)) # {}
                       => \E j \in 1..Len(Forms[text].invalidLines) :
                              /\ Forms[text].invalidLines[j].line = lines[i]
                              /\ Forms[text].invalidLines[j].reason
                                     = FirstFailure(domainOf(i))]

\* C33: validateDomainName returns the error of the first check that
\* fails, in the order empty, longer than 253, dangerous character,
\* wildcard, non-ASCII, pattern, consecutive dots, leading or trailing dot,
\* label longer than 63, and no other; and parseWhitelistLine on a line
\* whose first part fails a check returns a failure with that error, entry
\* null, whatever parts follow: for every sample string and for the lines
\* of every form saved.
C33_DomainErrorFirst ==
    /\ ev.op = "init"
           => \A s \in OrderStrings :
                  /\ validateDomainName(s)
                         = [valid |-> FailedChecks(s) = {}, error |-> FirstFailure(s)]
                  /\ FailedChecks(Trim(s)) # {}
                         => \A rest \in PartsAfter, lineIndex \in {0, 1} :
                                parseWhitelistLine(s \o rest, lineIndex)
                                    = [success |-> FALSE, entry |-> <<>>,
                                       error |-> <<[lineNumber |-> lineIndex + 1,
                                                    reason |-> FirstFailure(Trim(s)),
                                                    line |-> s \o rest]>>]
    /\ (ev.op = "OptionsSave" /\ ev.text # <<>>) => FormsReportFirstFailure[ev.text]

C33_Witness ==
    /\ ev.op = "OptionsSave"
    /\ ev.text = TextBadDomain
    /\ FailedChecks(<<"*", ".", "c", "o">>) = {4, 6}
    /\ ~isValidFlag(<<"2">>)
    /\ Forms[ev.text].invalidLines
           = <<[lineNumber |-> 1, reason |-> "wildcard",
                line |-> <<"*", ".", "c", "o", ",", "2", ",", "1">>]>>

====
